---- MODULE Spec2Model ----
(***************************************************************************)
(* The bidirectional link index of zeno                                    *)
(* (zeno-app/src-tauri/src/services/link_index.rs) and the command layer   *)
(* that guards it with one mutex (zeno-app/src-tauri/src/commands/links.rs).*)
(*                                                                         *)
(* Strings are sequences of one-character strings, so that suffix,         *)
(* substring, lower-casing and path-component operations are computed and  *)
(* not assumed.  A HashMap is a function on its key set; the order in which*)
(* a HashMap is iterated is part of the state (path_iter, title_iter): it  *)
(* is arbitrary after the insertion of a new key and does not change while *)
(* the map is not modified.                                                *)
(***************************************************************************)
EXTENDS Integers, Sequences, FiniteSets, TLC

\* ------------------------------------------------------------------ bounds
\* number of calls made on the index in one behaviour
MaxOps == 3
\* length of the link list handed to update_note_links
MaxLinks == 2
\* length of the batch handed to rebuild_link_index
MaxBatch == 2
\* number of pieces that the text handed to parse_links is made of
MaxPieces == 3

\* ---------------------------------------------------------------- universe
Ids == {"n1", "n2"}
\* Option<T>: None is the empty sequence, Some(x) the one-element sequence
None == << >>
Some(x) == << x >>

\* titles, paths and link targets the calls are made with
Titles == { <<"a">>, <<"A", "b">> }
Paths == { <<"d", "/", "a">>, <<"e", "/", "a">> }
Targets == { <<"a">>, <<"x">> }

\* titles, paths and targets of the calls that exercise resolution: a string
\* that is a title and a path, paths with one file name, titles that differ
\* in case only, a target that contains a title
RTitles == { <<"a">>, <<"A", "b">>, <<"a", "B">> }
RPaths == { <<"a">>, <<"d", "/", "a">>, <<"e", "/", "a">> }
RTargets == { <<"a">>, <<"b">>, <<"x">>, <<"x", "a">> }

\* the texts of the notes handed to rebuild_link_index: no link; an embed,
\* and a wiki link with blanks and an alias; a wiki link, a Markdown link
\* and a wiki link with an empty target
Contents ==
    { << >>,
      << "!", "[", "[", "x", "]", "]", " ", "[", "[", " ", "a", " ", "|", "t", "]", "]" >>,
      << "[", "[", "A", "b", "]", "]", "[", "t", "]", "(", "a", ")", "[", "[", "#", "s", "]", "]" >> }

\* the notes of the similarity scenarios: four notes with their own titles
\* and paths
SimIds == { "n1", "n2", "n3", "n4" }
SimNotes ==
    << [id |-> "n1", path |-> << "p", "/", "a" >>, title |-> << "a" >>],
       [id |-> "n2", path |-> << "p", "/", "b" >>, title |-> << "b" >>],
       [id |-> "n3", path |-> << "p", "/", "c" >>, title |-> << "c" >>],
       [id |-> "n4", path |-> << "p", "/", "d" >>, title |-> << "d" >>] >>

\* the link targets that update_note_links is called with for each of the
\* four notes: for n1 and n2 no link, links to c and d, a link to c; for n3
\* no link, links to a and b, a link to d; for n4 no link
SimTargets ==
    << { << >>, << << "c" >>, << "d" >> >>, << << "c" >> >> },
       { << >>, << << "c" >>, << "d" >> >>, << << "c" >> >> },
       { << >>, << << "a" >>, << "b" >> >>, << << "d" >> >> },
       { << >> } >>

\* the limits that find_similar_notes is called with
SimLimits == { 1, 10 }

\* the notes of the suggestion scenarios, each with the paths and titles it
\* can be registered with: a title that is the file stem of the path, the
\* title of Scenario 5, a title with a capital, a title and a stem made of a
\* two-byte character
SugIds == << "n1", "n2", "n3" >>
SugNotes ==
    << { [path |-> << "p", "/", "a", "b", "c", ".", "m", "d" >>,
          title |-> << "a", "b", "c" >>],
         [path |-> << "p", "/", "x" >>,
          title |-> << "P", "r", "o", "j", "e", "c", "t", " ", "P", "l", "a", "n" >>] },
       { [path |-> << "q", "/", "a", "b", "c", "d", "e" >>,
          title |-> << "A", "b", "c", "d" >>],
         [path |-> << "q", "/", "ü", "a" >>,
          title |-> << "ü", "a" >>] },
       { [path |-> << "r", "/", "a", "b", "c", "x" >>,
          title |-> << "b", "c", "d" >>] } >>

\* the targets of the links that do not resolve when they are stored
SugTargets ==
    { << "a", "b", "c", "d" >>,
      << "é", "a" >>,
      << "P", "r", "o", "y", "e", "c", "t", " ", "P", "l", "a", "n" >> }

\* the pieces that the texts handed to parse_links are made of: wiki links
\* (plain, embed, with an alias, with a blank target, with a blank target
\* and an anchor), Markdown links (local, with a blank url, HTTP, HTTPS),
\* a two-byte character, a line feed and single brackets
ParsePieces ==
    { << "[", "[", "a", "]", "]" >>,
      << "!", "[", "[", "a", "]", "]" >>,
      << "[", "[", "a", "|", "b", "]", "]" >>,
      << "[", "[", " ", "]", "]" >>,
      << "[", "[", " ", "#", "s", "]", "]" >>,
      << "[", "t", "]", "(", "a", ")" >>,
      << "[", "t", "]", "(", " ", ")" >>,
      << "[", "t", "]", "(", "h", "t", "t", "p", ":", "/", "/", "x", ")" >>,
      << "[", "u", "]", "(", "h", "t", "t", "p", "s", ":", "/", "/", "x", ")" >>,
      << "é" >>,
      << "\n" >>,
      << "[" >>,
      << "]" >> }

\* the pieces that the texts handed to replace_link and to
\* replace_multiple_links are made of: wiki links (plain, with an alias,
\* embed, with an anchor, embed with an alias), a Markdown link and a
\* two-byte character
ReplacePieces ==
    { << "[", "[", "a", "]", "]" >>,
      << "[", "[", "a", "|", "b", "]", "]" >>,
      << "!", "[", "[", "a", "]", "]" >>,
      << "[", "[", "a", "#", "s", "]", "]" >>,
      << "!", "[", "[", "a", "|", "b", "]", "]" >>,
      << "[", "t", "]", "(", "a", ")" >>,
      << "é" >> }

\* the new targets handed to replace_link and replace_multiple_links
NewTargets == { << "c" >>, << "é", "d", "d", "d", "d", "d" >> }

\* ----------------------------------------------------------------- strings
\* char::to_lowercase on the characters of the universe
LowerChar(c) ==
    CASE c = "A" -> "a"
      [] c = "B" -> "b"
      [] c = "P" -> "p"
      [] OTHER -> c

\* str::to_lowercase
to_lowercase(s) == [i \in 1..Len(s) |-> LowerChar(s[i])]

\* str::ends_with
ends_with(s, t) ==
    /\ Len(t) <= Len(s)
    /\ SubSeq(s, Len(s) - Len(t) + 1, Len(s)) = t

\* str::contains
contains(s, t) ==
    \E i \in 0..(Len(s) - Len(t)) : SubSeq(s, i + 1, i + Len(t)) = t

\* ------------------------------------------------------------------ parser
\* char::is_whitespace on the characters of the texts
is_whitespace(c) == c \in { " ", "\n", "\t" }

\* str::trim
trim(s) ==
    LET keep == { i \in 1..Len(s) : ~is_whitespace(s[i]) }
    IN IF keep = {} THEN << >>
       ELSE LET first == CHOOSE i \in keep : \A j \in keep : i <= j
                lastc == CHOOSE i \in keep : \A j \in keep : j <= i
            IN SubSeq(s, first, lastc)

\* str::starts_with
starts_with(s, t) == Len(t) <= Len(s) /\ SubSeq(s, 1, Len(t)) = t

\* the number of bytes of the UTF-8 encoding of a character
len_utf8(c) == IF c \in { "é", "ü" } THEN 2 ELSE 1

\* the byte offset at which the character s[i] starts (i may be Len(s) + 1)
RECURSIVE ByteOffset(_, _)
ByteOffset(s, i) == IF i <= 1 THEN 0 ELSE ByteOffset(s, i - 1) + len_utf8(s[i - 1])

\* the index of the first character c at or after index i, or 0
RECURSIVE Find(_, _, _)
Find(s, c, i) ==
    IF i > Len(s) THEN 0
    ELSE IF s[i] = c THEN i
    ELSE Find(s, c, i + 1)

\* the match of (!?)\[\[([^\]]+?)(?:\|([^\]]+?))?\]\] that starts at the
\* character i, as an Option: start and stop are the first character and
\* the one after the last, group2 and group3 the captures
WikiMatchAt(s, i) ==
    LET bang == s[i] = "!"
        open == IF bang THEN i + 1 ELSE i
        from == open + 2
        close == Find(s, "]", from)
    IN IF /\ open + 1 <= Len(s)
          /\ s[open] = "["
          /\ s[open + 1] = "["
          /\ close > from
          /\ close + 1 <= Len(s)
          /\ s[close + 1] = "]"
       THEN LET body == SubSeq(s, from, close - 1)
                bars == { p \in 2..(Len(body) - 1) : body[p] = "|" }
                bar == IF bars = {} THEN 0
                       ELSE CHOOSE p \in bars : \A q \in bars : p <= q
            IN Some([ start |-> i,
                      stop |-> close + 2,
                      group1 |-> IF bang THEN << "!" >> ELSE << >>,
                      group2 |-> IF bar = 0 THEN body ELSE SubSeq(body, 1, bar - 1),
                      group3 |-> IF bar = 0 THEN None
                                 ELSE Some(SubSeq(body, bar + 1, Len(body))) ])
       ELSE None

\* the match of \[([^\]]+?)\]\(([^)]+?)\) that starts at the character i
MarkdownMatchAt(s, i) ==
    LET close == Find(s, "]", i + 1)
        paren == Find(s, ")", close + 2)
    IN IF /\ s[i] = "["
          /\ close > i + 1
          /\ close + 1 <= Len(s)
          /\ s[close + 1] = "("
          /\ paren > close + 2
       THEN Some([ start |-> i,
                   stop |-> paren + 1,
                   group1 |-> SubSeq(s, i + 1, close - 1),
                   group2 |-> SubSeq(s, close + 2, paren - 1) ])
       ELSE None

\* Regex::captures_iter: the matches from the character i on, leftmost
\* first, each search starting where the match before ended
RECURSIVE WikiMatches(_, _)
WikiMatches(s, i) ==
    IF i > Len(s) THEN << >>
    ELSE LET m == WikiMatchAt(s, i)
         IN IF m # None THEN << m[1] >> \o WikiMatches(s, m[1].stop)
            ELSE WikiMatches(s, i + 1)

RECURSIVE MarkdownMatches(_, _)
MarkdownMatches(s, i) ==
    IF i > Len(s) THEN << >>
    ELSE LET m == MarkdownMatchAt(s, i)
         IN IF m # None THEN << m[1] >> \o MarkdownMatches(s, m[1].stop)
            ELSE MarkdownMatches(s, i + 1)

\* calculate_line_number: one more than the line feeds before the character i
calculate_line_number(s, i) ==
    Cardinality({ j \in 1..(i - 1) : s[j] = "\n" }) + 1

\* Option::map(|a| a.trim().to_string())
MapTrim(o) == IF o = None THEN None ELSE Some(trim(o[1]))

\* parse_single_wiki_link on the match m of the text s: [ok |-> TRUE, link]
\* or [ok |-> FALSE, error]
parse_single_wiki_link(s, m) ==
    LET raw == SubSeq(s, m.start, m.stop - 1)
        range == << ByteOffset(s, m.start), ByteOffset(s, m.stop) >>
        hash == Find(m.group2, "#", 1)
        target == IF hash = 0 THEN m.group2 ELSE SubSeq(m.group2, 1, hash - 1)
        anchor == IF hash = 0 THEN None
                  ELSE Some(SubSeq(m.group2, hash + 1, Len(m.group2)))
    IN IF trim(target) = << >>
       THEN [ ok |-> FALSE,
              error |-> [ position |-> range,
                          message |-> "empty target",
                          raw_text |-> raw ] ]
       ELSE [ ok |-> TRUE,
              link |-> [ raw |-> raw,
                         target |-> trim(target),
                         alias |-> MapTrim(m.group3),
                         anchor |-> MapTrim(anchor),
                         is_embed |-> m.group1 = << "!" >>,
                         range |-> range,
                         line_number |-> calculate_line_number(s, m.start) ] ]

\* the elements of the sequence q whose index is in keep, in order
RECURSIVE SelectIdx(_, _)
SelectIdx(q, keep) ==
    IF q = << >> THEN << >>
    ELSE (IF Len(q) \in keep THEN SelectIdx(SubSeq(q, 1, Len(q) - 1), keep) \o << q[Len(q)] >>
          ELSE SelectIdx(SubSeq(q, 1, Len(q) - 1), keep))

\* parse_wiki_links: the links pushed, the errors pushed and the counters
parse_wiki_links(s) ==
    LET ms == WikiMatches(s, 1)
        rs == [k \in 1..Len(ms) |-> parse_single_wiki_link(s, ms[k])]
        good == { k \in 1..Len(rs) : rs[k].ok }
        oks == SelectIdx(rs, good)
        errs == SelectIdx(rs, (1..Len(rs)) \ good)
    IN [ links |-> [k \in 1..Len(oks) |-> oks[k].link],
         errors |-> [k \in 1..Len(errs) |-> errs[k].error],
         embed_links |-> Cardinality({ k \in good : rs[k].link.is_embed }),
         wiki_links |-> Cardinality({ k \in good : ~rs[k].link.is_embed }) ]

\* parse_markdown_links that skips the urls that start with http:// only
parse_markdown_links_HttpOnly(s) ==
    LET ms == MarkdownMatches(s, 1)
        local == { k \in 1..Len(ms) :
                     ~starts_with(ms[k].group2, << "h", "t", "t", "p", ":", "/", "/" >>) }
        links == [k \in 1..Len(ms) |->
                    [ raw |-> SubSeq(s, ms[k].start, ms[k].stop - 1),
                      target |-> ms[k].group2,
                      alias |-> Some(ms[k].group1),
                      anchor |-> None,
                      is_embed |-> FALSE,
                      range |-> << ByteOffset(s, ms[k].start), ByteOffset(s, ms[k].stop) >>,
                      line_number |-> calculate_line_number(s, ms[k].start) ]]
    IN SelectIdx(links, local)

\* parse_markdown_links: a link for every match whose url is not an HTTP one
parse_markdown_links(s) ==
    LET ms == MarkdownMatches(s, 1)
        local == { k \in 1..Len(ms) :
                     /\ ~starts_with(ms[k].group2, << "h", "t", "t", "p", ":", "/", "/" >>)
                     /\ ~starts_with(ms[k].group2, << "h", "t", "t", "p", "s", ":", "/", "/" >>) }
        links == [k \in 1..Len(ms) |->
                    [ raw |-> SubSeq(s, ms[k].start, ms[k].stop - 1),
                      target |-> ms[k].group2,
                      alias |-> Some(ms[k].group1),
                      anchor |-> None,
                      is_embed |-> FALSE,
                      range |-> << ByteOffset(s, ms[k].start), ByteOffset(s, ms[k].stop) >>,
                      line_number |-> calculate_line_number(s, ms[k].start) ]]
    IN SelectIdx(links, local)

\* a link list that is left as it was pushed: the wiki links, then the
\* Markdown links
SortByStart_Unsorted(w, m) == w \o m

\* links.sort_by_key(|link| link.range.start) on the wiki links followed by
\* the Markdown links: a stable sort of two runs that are each in order
RECURSIVE SortByStart(_, _)
SortByStart(w, m) ==
    IF w = << >> THEN m
    ELSE IF m = << >> THEN w
    ELSE IF Head(w).range[1] <= Head(m).range[1]
    THEN << Head(w) >> \o SortByStart(Tail(w), m)
    ELSE << Head(m) >> \o SortByStart(w, Tail(m))

\* LinkParser::parse_links
parse_links(s) ==
    LET wiki == parse_wiki_links(s)
        markdown == parse_markdown_links(s)
    IN [ links |-> SortByStart(wiki.links, markdown),
         errors |-> wiki.errors,
         stats |-> [ wiki_links |-> wiki.wiki_links,
                     embed_links |-> wiki.embed_links,
                     markdown_links |-> Len(markdown),
                     broken_links |-> 0 ] ]

\* WikiLink::full_target: the target, with "#" and the anchor when there is
\* one
full_target(link) ==
    IF link.anchor # None THEN link.target \o << "#" >> \o link.anchor[1]
    ELSE link.target

\* the text that replace_link and replace_multiple_links write for the link:
\* format!("![[{}]]"), format!("[[{}|{}]]") or format!("[[{}]]")
new_link(old_link, new_target) ==
    IF old_link.alias # None
    THEN (IF old_link.is_embed
          THEN << "!", "[", "[" >> \o new_target \o << "]", "]" >>
          ELSE << "[", "[" >> \o new_target \o << "|" >> \o old_link.alias[1]
                   \o << "]", "]" >>)
    ELSE (IF old_link.is_embed
          THEN << "!", "[", "[" >> \o new_target \o << "]", "]" >>
          ELSE << "[", "[" >> \o new_target \o << "]", "]" >>)

\* what a call leaves when String::replace_range panics; no text is equal
\* to it
Panic == << "panic" >>

\* the index of the character of s that starts at the byte offset b, one
\* past the last character for the length of s, 0 when b is not a char
\* boundary of s
CharAt(s, b) ==
    LET hits == { i \in 1..(Len(s) + 1) : ByteOffset(s, i) = b }
    IN IF hits = {} THEN 0 ELSE CHOOSE i \in hits : TRUE

\* String::replace_range(range, with): the bytes of the range are replaced;
\* it panics when the range does not lie on char boundaries of the string
replace_range(s, range, with) ==
    IF s = Panic THEN Panic
    ELSE LET from == CharAt(s, range[1])
             to == CharAt(s, range[2])
         IN IF from = 0 \/ to = 0 \/ from > to THEN Panic
            ELSE SubSeq(s, 1, from - 1) \o with \o SubSeq(s, to, Len(s))

\* LinkParser::replace_link
replace_link(content, old_link, new_target) ==
    replace_range(content, old_link.range, new_link(old_link, new_target))

\* the replacements in the order of the input list
SortByReverseStart_InputOrder(q) == q

\* sorted_replacements.sort_by_key(|(link, _)| Reverse(link.range.start)):
\* a stable sort, the greatest start offset first
RECURSIVE SortByReverseStart(_)
SortByReverseStart(q) ==
    IF q = << >> THEN << >>
    ELSE LET rest == SortByReverseStart(SubSeq(q, 1, Len(q) - 1))
             x == q[Len(q)]
             before == { k \in DOMAIN rest : rest[k].link.range[1] >= x.link.range[1] }
         IN SubSeq(rest, 1, Cardinality(before)) \o << x >>
              \o SubSeq(rest, Cardinality(before) + 1, Len(rest))

\* the loop of replace_multiple_links over the sorted replacements
RECURSIVE ReplaceLoop(_, _)
ReplaceLoop(result, sorted_replacements) ==
    IF sorted_replacements = << >> THEN result
    ELSE LET r == Head(sorted_replacements)
             next == replace_range(result, r.link.range, new_link(r.link, r.new_target))
         IN IF next = Panic THEN Panic
            ELSE ReplaceLoop(next, Tail(sorted_replacements))

\* LinkParser::replace_multiple_links
replace_multiple_links(content, replacements) ==
    ReplaceLoop(content, SortByReverseStart(replacements))

\* the targets of the links that parsing finds in the texts; Components is
\* not defined on a target that is missing here
ContentTargets == { << "x" >>, << "a" >>, << "A", "b" >> }

\* ------------------------------------------------------------------- paths
\* the pieces of s between "/" characters, empty pieces dropped; cur is the
\* piece being read
RECURSIVE Pieces(_, _, _)
Pieces(s, i, cur) ==
    IF i > Len(s)
    THEN (IF cur = << >> THEN << >> ELSE << cur >>)
    ELSE IF s[i] = "/"
    THEN (IF cur = << >> THEN << >> ELSE << cur >>) \o Pieces(s, i + 1, << >>)
    ELSE Pieces(s, i + 1, Append(cur, s[i]))

\* Path::components: an optional root, then the non-empty pieces; a "." piece
\* is kept only in first position of a relative path
ComponentsOfString(s) ==
    LET parts == Pieces(s, 1, << >>)
        rooted == Len(s) > 0 /\ s[1] = "/"
        RECURSIVE Collect(_)
        Collect(i) == IF i > Len(parts) THEN << >>
                      ELSE IF parts[i] = << "." >> /\ (i > 1 \/ rooted)
                      THEN Collect(i + 1)
                      ELSE << parts[i] >> \o Collect(i + 1)
    IN (IF rooted THEN << << "/" >> >> ELSE << >>) \o Collect(1)

\* the strings that are used as paths: registered paths and link targets
PathStrings ==
    Paths \cup Targets \cup RPaths \cup RTargets \cup ContentTargets
        \cup { SimNotes[k].path : k \in DOMAIN SimNotes }
        \cup { << "a" >>, << "b" >>, << "c" >>, << "d" >> }
        \cup { n.path : n \in UNION { SugNotes[k] : k \in DOMAIN SugNotes } }
        \cup SugTargets

\* the components of every string used as a path, computed once
ComponentsTable == [s \in PathStrings |-> ComponentsOfString(s)]

Components(s) == ComponentsTable[s]

\* Path::file_name: the last component when it is a normal one, else None
file_name(s) ==
    LET c == Components(s)
    IN IF c = << >> THEN None
       ELSE LET l == c[Len(c)]
            IN IF l \in { << "/" >>, << "." >>, << ".", "." >> } THEN None ELSE l

\* Path::file_stem: the file name up to its last "." (the whole name when it
\* has no "." after its first character), or None
file_stem(s) ==
    LET name == file_name(s)
        dots == { i \in 2..Len(name) : name[i] = "." }
    IN IF name = None \/ dots = {} THEN name
       ELSE SubSeq(name, 1, (CHOOSE i \in dots : \A j \in dots : j <= i) - 1)

\* PathBuf equality (and hashing) compares components
PathEq(p, q) == Components(p) = Components(q)

\* ------------------------------------------------------------------- maps
MapPut(m, k, v) == [x \in DOMAIN m \cup {k} |-> IF x = k THEN v ELSE m[x]]
MapRemove(m, k) == [x \in DOMAIN m \ {k} |-> m[x]]
EmptyMap == [x \in {} |-> {}]

\* the sequences that hold every element of S exactly once
Orders(S) ==
    { o \in [1..Cardinality(S) -> S] : \A x \in S : \E i \in DOMAIN o : o[i] = x }

\* s without the elements of drop
RECURSIVE FilterSeq(_, _)
FilterSeq(s, drop) ==
    IF s = << >> THEN << >>
    ELSE IF Head(s) \in drop THEN FilterSeq(Tail(s), drop)
    ELSE << Head(s) >> \o FilterSeq(Tail(s), drop)

\* ------------------------------------------------------------------- links
\* the WikiLink that parsing "[[target]]" at byte offset start gives
WikiLink(target, start) ==
    [ raw |-> << "[", "[" >> \o target \o << "]", "]" >>,
      target |-> target,
      alias |-> None,
      anchor |-> None,
      is_embed |-> FALSE,
      range |-> << start, start + Len(target) + 4 >>,
      line_number |-> 1 ]

\* the link occurrences of the text "[[t1]][[t2]]..." for the targets ts
RECURSIVE LinksFrom(_, _)
LinksFrom(ts, start) ==
    IF ts = << >> THEN << >>
    ELSE LET l == WikiLink(Head(ts), start)
         IN << l >> \o LinksFrom(Tail(ts), l.range[2])

\* the link lists over the targets T, of length at most n
ListsOver(T, n) == { LinksFrom(ts, 0) : ts \in UNION { [1..k -> T] : k \in 0..n } }

LinkLists == ListsOver(Targets, MaxLinks)

\* the lists of one link over the targets RTargets
RLinkLists == { LinksFrom(<< t >>, 0) : t \in RTargets }

\* ------------------------------------------------------------------ state
VARIABLES
    outgoing_links,   \* note id -> set of target ids
    incoming_links,   \* note id -> set of source ids
    path_to_id,       \* path -> note id
    id_to_path,       \* note id -> path
    title_to_id,      \* title -> note id
    broken_links,     \* note id -> sequence of unresolved links
    orphaned_notes,   \* set of note ids
    path_iter,        \* the keys of path_to_id in iteration order
    title_iter,       \* the keys of title_to_id in iteration order
    last,             \* the call made last, with its arguments
    ops,              \* number of calls made
    lock,             \* the holder of the Mutex<LinkIndex>, as an Option
    pc,               \* thread -> its position in the command it runs
    cmd,              \* thread -> the command it runs, with its locals
    committed         \* the index as the last completed mutation left it

vars == << outgoing_links, incoming_links, path_to_id, id_to_path, title_to_id,
           broken_links, orphaned_notes, path_iter, title_iter, last, ops,
           lock, pc, cmd, committed >>

\* the variables of the command layer
layer == << lock, pc, cmd, committed >>

\* the LinkIndex value held by the variables
Index ==
    [ outgoing_links |-> outgoing_links,
      incoming_links |-> incoming_links,
      path_to_id |-> path_to_id,
      id_to_path |-> id_to_path,
      title_to_id |-> title_to_id,
      broken_links |-> broken_links,
      orphaned_notes |-> orphaned_notes,
      path_iter |-> path_iter,
      title_iter |-> title_iter ]

\* LinkIndex::new
new ==
    [ outgoing_links |-> EmptyMap,
      incoming_links |-> EmptyMap,
      path_to_id |-> EmptyMap,
      id_to_path |-> EmptyMap,
      title_to_id |-> EmptyMap,
      broken_links |-> EmptyMap,
      orphaned_notes |-> {},
      path_iter |-> << >>,
      title_iter |-> << >> ]

SetIndex(ix) ==
    /\ outgoing_links' = ix.outgoing_links
    /\ incoming_links' = ix.incoming_links
    /\ path_to_id' = ix.path_to_id
    /\ id_to_path' = ix.id_to_path
    /\ title_to_id' = ix.title_to_id
    /\ broken_links' = ix.broken_links
    /\ orphaned_notes' = ix.orphaned_notes
    /\ path_iter' = ix.path_iter
    /\ title_iter' = ix.title_iter

\* HashMap::get with a default for a missing key
GetOr(m, k, d) == IF k \in DOMAIN m THEN m[k] ELSE d

\* the key of path_to_id that equals path as a PathBuf, if there is one
PathKey(m, path) ==
    LET c == Components(path)
        hits == { k \in DOMAIN m : Components(k) = c }
    IN IF hits = {} THEN None ELSE Some(CHOOSE k \in hits : TRUE)

\* ------------------------------------------------------------ register_note
\* register_note that inserts fresh empty link sets instead of keeping the
\* sets of a known id
register_note_ResetSets(ix, note_id, path, title) ==
    LET pk == PathKey(ix.path_to_id, path)
        p2i == IF pk = None THEN MapPut(ix.path_to_id, path, note_id)
               ELSE [ix.path_to_id EXCEPT ![pk[1]] = note_id]
        porders == IF pk = None THEN Orders(DOMAIN p2i) ELSE { ix.path_iter }
        t2i == MapPut(ix.title_to_id, title, note_id)
        torders == IF title \in DOMAIN ix.title_to_id THEN { ix.title_iter }
                   ELSE Orders(DOMAIN t2i)
    IN { [ix EXCEPT !.path_to_id = p2i,
                    !.id_to_path = MapPut(ix.id_to_path, note_id, path),
                    !.title_to_id = t2i,
                    !.outgoing_links = MapPut(ix.outgoing_links, note_id, {}),
                    !.incoming_links = MapPut(ix.incoming_links, note_id, {}),
                    !.path_iter = po,
                    !.title_iter = to] : po \in porders, to \in torders }

\* register_note that does not initialise the backward set
register_note_NoIncoming(ix, note_id, path, title) ==
    LET pk == PathKey(ix.path_to_id, path)
        p2i == IF pk = None THEN MapPut(ix.path_to_id, path, note_id)
               ELSE [ix.path_to_id EXCEPT ![pk[1]] = note_id]
        porders == IF pk = None THEN Orders(DOMAIN p2i) ELSE { ix.path_iter }
        t2i == MapPut(ix.title_to_id, title, note_id)
        torders == IF title \in DOMAIN ix.title_to_id THEN { ix.title_iter }
                   ELSE Orders(DOMAIN t2i)
        out == IF note_id \in DOMAIN ix.outgoing_links THEN ix.outgoing_links
               ELSE MapPut(ix.outgoing_links, note_id, {})
    IN { [ix EXCEPT !.path_to_id = p2i,
                    !.id_to_path = MapPut(ix.id_to_path, note_id, path),
                    !.title_to_id = t2i,
                    !.outgoing_links = out,
                    !.path_iter = po,
                    !.title_iter = to] : po \in porders, to \in torders }

\* the three inserts with a title_to_id that keeps the id a title already
\* maps to
RegisterEntries_FirstTitleWins(ix, note_id, path, title) ==
    LET pk == PathKey(ix.path_to_id, path)
        p2i == IF pk = None THEN MapPut(ix.path_to_id, path, note_id)
               ELSE [ix.path_to_id EXCEPT ![pk[1]] = note_id]
        porders == IF pk = None THEN Orders(DOMAIN p2i) ELSE { ix.path_iter }
        t2i == IF title \in DOMAIN ix.title_to_id THEN ix.title_to_id
               ELSE MapPut(ix.title_to_id, title, note_id)
        torders == IF title \in DOMAIN ix.title_to_id THEN { ix.title_iter }
                   ELSE Orders(DOMAIN t2i)
    IN { [ix EXCEPT !.path_to_id = p2i,
                    !.id_to_path = MapPut(ix.id_to_path, note_id, path),
                    !.title_to_id = t2i,
                    !.path_iter = po,
                    !.title_iter = to] : po \in porders, to \in torders }

\* the results register_note can have: one per iteration order the two
\* registries may take when the call inserts a new key
\* the three inserts into the registries; one result for each iteration
\* order the maps can have afterwards
RegisterEntries(ix, note_id, path, title) ==
    LET pk == PathKey(ix.path_to_id, path)
        p2i == IF pk = None THEN MapPut(ix.path_to_id, path, note_id)
               ELSE [ix.path_to_id EXCEPT ![pk[1]] = note_id]
        porders == IF pk = None THEN Orders(DOMAIN p2i) ELSE { ix.path_iter }
        t2i == MapPut(ix.title_to_id, title, note_id)
        torders == IF title \in DOMAIN ix.title_to_id THEN { ix.title_iter }
                   ELSE Orders(DOMAIN t2i)
    IN { [ix EXCEPT !.path_to_id = p2i,
                    !.id_to_path = MapPut(ix.id_to_path, note_id, path),
                    !.title_to_id = t2i,
                    !.path_iter = po,
                    !.title_iter = to] : po \in porders, to \in torders }

\* entry(note_id).or_insert_with(HashSet::new) on the two link maps
RegisterSets(ix, note_id) ==
    LET out == IF note_id \in DOMAIN ix.outgoing_links THEN ix.outgoing_links
               ELSE MapPut(ix.outgoing_links, note_id, {})
        inc == IF note_id \in DOMAIN ix.incoming_links THEN ix.incoming_links
               ELSE MapPut(ix.incoming_links, note_id, {})
    IN [ix EXCEPT !.outgoing_links = out, !.incoming_links = inc]

register_note(ix, note_id, path, title) ==
    { RegisterSets(r, note_id) : r \in RegisterEntries(ix, note_id, path, title) }

\* ---------------------------------------------------------- unregister_note
\* unregister_note that removes the note's own entries and leaves the note
\* in the forward sets of the notes that link to it
unregister_note_KeepSources(ix, note_id) ==
    LET pk == IF note_id \in DOMAIN ix.id_to_path
              THEN PathKey(ix.path_to_id, ix.id_to_path[note_id])
              ELSE None
        p2i == IF pk = None THEN ix.path_to_id ELSE MapRemove(ix.path_to_id, pk[1])
        gone == { t \in DOMAIN ix.title_to_id : ix.title_to_id[t] = note_id }
        outgoing == GetOr(ix.outgoing_links, note_id, {})
    IN [ix EXCEPT !.id_to_path = MapRemove(ix.id_to_path, note_id),
                  !.path_to_id = p2i,
                  !.path_iter = FilterSeq(ix.path_iter, DOMAIN ix.path_to_id \ DOMAIN p2i),
                  !.title_to_id = [t \in DOMAIN ix.title_to_id \ gone |-> ix.title_to_id[t]],
                  !.title_iter = FilterSeq(ix.title_iter, gone),
                  !.outgoing_links = MapRemove(ix.outgoing_links, note_id),
                  !.incoming_links =
                      MapRemove([t \in DOMAIN ix.incoming_links |->
                                    IF t \in outgoing
                                    THEN ix.incoming_links[t] \ {note_id}
                                    ELSE ix.incoming_links[t]], note_id),
                  !.broken_links = MapRemove(ix.broken_links, note_id),
                  !.orphaned_notes = ix.orphaned_notes \ {note_id}]

\* id_to_path.remove(note_id), path_to_id.remove(&path) and
\* title_to_id.retain(|_, id| id != note_id)
UnregisterEntries(ix, note_id) ==
    LET pk == IF note_id \in DOMAIN ix.id_to_path
              THEN PathKey(ix.path_to_id, ix.id_to_path[note_id])
              ELSE None
        p2i == IF pk = None THEN ix.path_to_id ELSE MapRemove(ix.path_to_id, pk[1])
        gone == { t \in DOMAIN ix.title_to_id : ix.title_to_id[t] = note_id }
    IN [ix EXCEPT !.id_to_path = MapRemove(ix.id_to_path, note_id),
                  !.path_to_id = p2i,
                  !.path_iter = FilterSeq(ix.path_iter, DOMAIN ix.path_to_id \ DOMAIN p2i),
                  !.title_to_id = [t \in DOMAIN ix.title_to_id \ gone |-> ix.title_to_id[t]],
                  !.title_iter = FilterSeq(ix.title_iter, gone)]

\* outgoing_links.remove(note_id) and the mirrors of its edges
UnregisterOutgoing(ix, note_id) ==
    LET outgoing == GetOr(ix.outgoing_links, note_id, {})
    IN [ix EXCEPT !.outgoing_links = MapRemove(ix.outgoing_links, note_id),
                  !.incoming_links =
                      [t \in DOMAIN ix.incoming_links |->
                          IF t \in outgoing
                          THEN ix.incoming_links[t] \ {note_id}
                          ELSE ix.incoming_links[t]]]

\* incoming_links.remove(note_id) and the mirrors of its edges
UnregisterIncoming(ix, note_id) ==
    LET incoming == GetOr(ix.incoming_links, note_id, {})
    IN [ix EXCEPT !.incoming_links = MapRemove(ix.incoming_links, note_id),
                  !.outgoing_links =
                      [s \in DOMAIN ix.outgoing_links |->
                          IF s \in incoming
                          THEN ix.outgoing_links[s] \ {note_id}
                          ELSE ix.outgoing_links[s]]]

\* broken_links.remove(note_id) and orphaned_notes.remove(note_id)
UnregisterCleanup(ix, note_id) ==
    [ix EXCEPT !.broken_links = MapRemove(ix.broken_links, note_id),
               !.orphaned_notes = ix.orphaned_notes \ {note_id}]

unregister_note(ix, note_id) ==
    UnregisterCleanup(
        UnregisterIncoming(
            UnregisterOutgoing(
                UnregisterEntries(ix, note_id), note_id), note_id), note_id)

\* -------------------------------------------------------- update_note_links
\* clear_note_links that empties the forward set and leaves the mirrors
clear_note_links_KeepMirrors(ix, note_id) ==
    [ix EXCEPT !.outgoing_links = MapPut(ix.outgoing_links, note_id, {}),
               !.broken_links = MapRemove(ix.broken_links, note_id)]

\* the loop that removes note_id from the backward sets of its targets
ClearMirrors(ix, note_id) ==
    LET outgoing == GetOr(ix.outgoing_links, note_id, {})
    IN [ix EXCEPT !.incoming_links =
                      [t \in DOMAIN ix.incoming_links |->
                          IF t \in outgoing
                          THEN ix.incoming_links[t] \ {note_id}
                          ELSE ix.incoming_links[t]]]

\* the second half of clear_note_links without the removal of the stored
\* broken links
ClearForward_KeepBroken(ix, note_id) ==
    [ix EXCEPT !.outgoing_links = MapPut(ix.outgoing_links, note_id, {})]

\* outgoing_links.insert(note_id, HashSet::new()); broken_links.remove(note_id)
ClearForward(ix, note_id) ==
    [ix EXCEPT !.outgoing_links = MapPut(ix.outgoing_links, note_id, {}),
               !.broken_links = MapRemove(ix.broken_links, note_id)]

clear_note_links(ix, note_id) == ClearForward(ClearMirrors(ix, note_id), note_id)

\* outgoing_links.entry(source_id).or_default().insert(target_id)
AddForward(ix, source_id, target_id) ==
    [ix EXCEPT !.outgoing_links =
                   MapPut(ix.outgoing_links, source_id,
                          GetOr(ix.outgoing_links, source_id, {}) \cup {target_id})]

\* the backward half of add_link_relationship as an insert of a fresh set
\* that holds the source only
AddBackward_Replace(ix, source_id, target_id) ==
    [ix EXCEPT !.incoming_links = MapPut(ix.incoming_links, target_id, {source_id})]

\* incoming_links.entry(target_id).or_default().insert(source_id)
AddBackward(ix, source_id, target_id) ==
    [ix EXCEPT !.incoming_links =
                   MapPut(ix.incoming_links, target_id,
                          GetOr(ix.incoming_links, target_id, {}) \cup {source_id})]

add_link_relationship(ix, source_id, target_id) ==
    AddBackward(AddForward(ix, source_id, target_id), source_id, target_id)

\* the first element of the sequence s that satisfies Test, as an Option
FirstIn(s, Test(_)) ==
    IF \E i \in DOMAIN s : Test(s[i])
    THEN Some(s[CHOOSE i \in DOMAIN s :
                    /\ Test(s[i])
                    /\ \A j \in 1..(i - 1) : ~Test(s[j])])
    ELSE None

\* step 3: the first path, in iteration order, with the target's file name or
\* with the target as a suffix
SuffixMatch(ix, target) ==
    LET name == file_name(target)
        Hit(path) == \/ file_name(path) = name
                     \/ ends_with(path, target)
    IN FirstIn(ix.path_iter, Hit)

\* step 4: the first title, in iteration order, that contains the target,
\* both in lower case
FuzzyTitleMatch(ix, target) ==
    LET target_lower == to_lowercase(target)
        Hit(title) == contains(to_lowercase(title), target_lower)
    IN FirstIn(ix.title_iter, Hit)

\* resolution that tries the path registry before the title registry
resolve_link_target_PathFirst(ix, link) ==
    LET pk == PathKey(ix.path_to_id, link.target)
    IN IF pk # None THEN Some(ix.path_to_id[pk[1]])
       ELSE IF link.target \in DOMAIN ix.title_to_id
       THEN Some(ix.title_to_id[link.target])
       ELSE LET sm == SuffixMatch(ix, link.target)
            IN IF sm # None THEN Some(ix.path_to_id[sm[1]])
               ELSE LET fm == FuzzyTitleMatch(ix, link.target)
                    IN IF fm # None THEN Some(ix.title_to_id[fm[1]])
                       ELSE None

resolve_link_target(ix, link) ==
    IF link.target \in DOMAIN ix.title_to_id
    THEN Some(ix.title_to_id[link.target])
    ELSE LET pk == PathKey(ix.path_to_id, link.target)
         IN IF pk # None THEN Some(ix.path_to_id[pk[1]])
            ELSE LET sm == SuffixMatch(ix, link.target)
                 IN IF sm # None THEN Some(ix.path_to_id[sm[1]])
                    ELSE LET fm == FuzzyTitleMatch(ix, link.target)
                         IN IF fm # None THEN Some(ix.title_to_id[fm[1]])
                            ELSE None

\* update_orphaned_status without the clear of the old set
update_orphaned_status_NoClear(ix) ==
    [ix EXCEPT !.orphaned_notes = ix.orphaned_notes \cup
        { note_id \in DOMAIN ix.id_to_path :
            /\ GetOr(ix.outgoing_links, note_id, {}) = {}
            /\ GetOr(ix.incoming_links, note_id, {}) = {} }]

update_orphaned_status(ix) ==
    [ix EXCEPT !.orphaned_notes =
        { note_id \in DOMAIN ix.id_to_path :
            /\ GetOr(ix.outgoing_links, note_id, {}) = {}
            /\ GetOr(ix.incoming_links, note_id, {}) = {} }]

\* the loop with an unresolved link put in front of the local vector
RECURSIVE ResolveLoop_Prepend(_, _, _)
ResolveLoop_Prepend(acc, note_id, links) ==
    IF links = << >> THEN acc
    ELSE LET link == Head(links)
             r == resolve_link_target(acc.ix, link)
             next == IF r # None
                     THEN [acc EXCEPT !.ix = add_link_relationship(acc.ix, note_id, r[1])]
                     ELSE [acc EXCEPT !.broken = << link >> \o acc.broken]
         IN ResolveLoop_Prepend(next, note_id, Tail(links))

\* the loop over the links: acc.ix is the index, acc.broken the local vector
RECURSIVE ResolveLoop(_, _, _)
ResolveLoop(acc, note_id, links) ==
    IF links = << >> THEN acc
    ELSE LET link == Head(links)
             r == resolve_link_target(acc.ix, link)
             next == IF r # None
                     THEN [acc EXCEPT !.ix = add_link_relationship(acc.ix, note_id, r[1])]
                     ELSE [acc EXCEPT !.broken = Append(acc.broken, link)]
         IN ResolveLoop(next, note_id, Tail(links))

\* the insert of the local broken-link vector, made only when it is not empty
StoreBroken(ix, note_id, broken) ==
    IF broken # << >>
    THEN [ix EXCEPT !.broken_links = MapPut(ix.broken_links, note_id, broken)]
    ELSE ix

\* update_note_links that keeps the stored broken links of the note and
\* extends them with the new ones
update_note_links_Accumulate(ix, note_id, links) ==
    LET cleared == [clear_note_links(ix, note_id) EXCEPT !.broken_links = ix.broken_links]
        done == ResolveLoop([ix |-> cleared, broken |-> << >>], note_id, links)
        kept == GetOr(ix.broken_links, note_id, << >>)
    IN update_orphaned_status(StoreBroken(done.ix, note_id, kept \o done.broken))

update_note_links(ix, note_id, links) ==
    LET cleared == clear_note_links(ix, note_id)
        done == ResolveLoop([ix |-> cleared, broken |-> << >>], note_id, links)
    IN update_orphaned_status(StoreBroken(done.ix, note_id, done.broken))

\* update_note_links that fails when a link does not resolve
UpdateResult_ErrOnBroken(ix, note_id, links) ==
    LET done == ResolveLoop([ix |-> clear_note_links(ix, note_id), broken |-> << >>],
                            note_id, links)
    IN IF done.broken = << >> THEN "Ok" ELSE "Err"

\* the Result that update_note_links returns: Ok(()) on its only return
UpdateResult(ix, note_id, links) == "Ok"

\* ------------------------------------------------------------------ queries
\* get_orphaned_notes: the members of the orphan set, as a set (the vector
\* holds each once, in the set's iteration order)
get_orphaned_notes(ix) == ix.orphaned_notes

\* get_note_title: the first title, in iteration order, that maps to note_id
get_note_title(ix, note_id) ==
    LET Hit(title) == ix.title_to_id[title] = note_id
    IN FirstIn(ix.title_iter, Hit)

\* Option::unwrap_or_default on an Option<String>
unwrap_or_default(o) == IF o = None THEN << >> ELSE o[1]

\* get_backlinks: one record for each member of the backward set of note_id
\* that has an entry in id_to_path; as a set (the vector holds them in the
\* iteration order of the backward set)
get_backlinks(ix, note_id) ==
    { [ source_note_id |-> source_id,
        source_note_title |-> unwrap_or_default(get_note_title(ix, source_id)),
        source_note_path |-> ix.id_to_path[source_id],
        context |-> << >>,
        line_number |-> 0,
        link_type |-> "Wiki",
        occurrence_count |-> 1 ] :
      source_id \in { s \in GetOr(ix.incoming_links, note_id, {}) :
                        s \in DOMAIN ix.id_to_path } }

\* get_outgoing_links: the members of the forward set of note_id, as a set
get_outgoing_links(ix, note_id) == GetOr(ix.outgoing_links, note_id, {})

\* |a intersection b| and |a union b|, the two counts of a Jaccard term
Counts(a, b) == << Cardinality(a \cap b), Cardinality(a \cup b) >>

\* a score that leaves a term with an empty union out of the mean
Similarity_SkipEmpty(out, inc) ==
    IF out[2] = 0 /\ inc[2] = 0 THEN << 0, 1 >>
    ELSE IF inc[2] = 0 THEN << out[1], out[2] >>
    ELSE IF out[2] = 0 THEN << inc[1], inc[2] >>
    ELSE << out[1] * inc[2] + inc[1] * out[2], 2 * out[2] * inc[2] >>

\* (outgoing_sim + incoming_sim) / 2.0 as the fraction << numerator,
\* denominator >>, a term being 0.0 when its union is empty. With sets of at
\* most four ids the f64 values are equal, and are ordered, as these
\* fractions are.
Similarity(out, inc) ==
    LET to == IF out[2] = 0 THEN 1 ELSE out[2]
        ti == IF inc[2] = 0 THEN 1 ELSE inc[2]
    IN << out[1] * ti + inc[1] * to, 2 * to * ti >>

\* x < y on fractions with positive denominators
ScoreLess(x, y) == x[1] * y[2] < y[1] * x[2]

\* similarity > 0.1
AboveThreshold(x) == 10 * x[1] > x[2]

\* the SimilarNote pushed for other_id; common_links is the chain of the two
\* intersections, held as the number of times each id stands in the vector
SimilarNote(ix, note_id, other_id) ==
    LET outgoing == GetOr(ix.outgoing_links, note_id, {})
        incoming == GetOr(ix.incoming_links, note_id, {})
        other_outgoing == ix.outgoing_links[other_id]
        other_incoming == GetOr(ix.incoming_links, other_id, {})
        co == outgoing \cap other_outgoing
        ci == incoming \cap other_incoming
    IN [ note_id |-> other_id,
         title |-> unwrap_or_default(get_note_title(ix, other_id)),
         path |-> GetOr(ix.id_to_path, other_id, << >>),
         similarity_score |-> Similarity(Counts(outgoing, other_outgoing),
                                         Counts(incoming, other_incoming)),
         common_links |-> [x \in co \cup ci |->
                              (IF x \in co THEN 1 ELSE 0) + (IF x \in ci THEN 1 ELSE 0)],
         similarity_reason |-> Cardinality(co) + Cardinality(ci) ]

\* a vector that is left in the order in which the records were pushed
SortByScore_Unsorted(q) == q

\* sort_by(|a, b| b.similarity_score.partial_cmp(&a.similarity_score)): a
\* stable sort, records of equal score keep their order
RECURSIVE SortByScore(_)
SortByScore(q) ==
    IF q = << >> THEN << >>
    ELSE LET front == SortByScore(SubSeq(q, 1, Len(q) - 1))
             x == q[Len(q)]
             k == Cardinality({ j \in DOMAIN front :
                                  ~ScoreLess(front[j].similarity_score,
                                             x.similarity_score) })
         IN SubSeq(front, 1, k) \o << x >> \o SubSeq(front, k + 1, Len(front))

\* Vec::truncate
truncate(q, limit) == IF Len(q) > limit THEN SubSeq(q, 1, limit) ELSE q

\* find_similar_notes: the vectors the call can return. The loop over
\* outgoing_links skips note_id and pushes the record of every other key
\* whose score is above the threshold; the records stand in the vector in
\* the order in which the map is iterated, which can be any order of them.
find_similar_notes(ix, note_id, limit) ==
    LET pushed == [other_id \in DOMAIN ix.outgoing_links \ { note_id } |->
                      SimilarNote(ix, note_id, other_id)]
        kept == { other_id \in DOMAIN pushed :
                    AboveThreshold(pushed[other_id].similarity_score) }
    IN { truncate(SortByScore([i \in DOMAIN order |-> pushed[order[i]]]), limit) :
           order \in Orders(kept) }

\* str::len: the number of bytes of the UTF-8 encoding
len(s) == ByteOffset(s, Len(s) + 1)

\* the smallest of three numbers
Min3(a, b, c) ==
    IF a <= b /\ a <= c THEN a ELSE IF b <= c THEN b ELSE c

\* the row of the matrix for the character c of the first string: acc holds
\* the columns 0 .. j - 1 of the row, prev the row before
RECURSIVE FillRow(_, _, _, _)
FillRow(prev, c, chars2, acc) ==
    LET j == Len(acc)
    IN IF j > Len(chars2) THEN acc
       ELSE LET cost == IF c = chars2[j] THEN 0 ELSE 1
            IN FillRow(prev, c, chars2,
                       Append(acc, Min3(prev[j + 1] + 1, acc[j] + 1, prev[j] + cost)))

\* the last row of the matrix, filled row by row from the row i on
RECURSIVE FillMatrix(_, _, _, _)
FillMatrix(chars1, chars2, i, prev) ==
    IF i > Len(chars1) THEN prev
    ELSE FillMatrix(chars1, chars2, i + 1,
                    FillRow(prev, chars1[i], chars2, << i >>))

\* levenshtein_distance: the edit distance of the two strings as vectors of
\* chars
levenshtein_distance(s1, s2) ==
    FillMatrix(s1, s2, 1, [j \in 1..(Len(s2) + 1) |-> j - 1])[Len(s2) + 1]

\* calculate_string_similarity: 1.0 - distance / max_len as the fraction
\* << numerator, denominator >>; len1 and len2 are lengths in bytes. The f64
\* values are equal, and are ordered, as these fractions are.
calculate_string_similarity(s1, s2) ==
    LET len1 == len(s1)
        len2 == len(s2)
    IN IF len1 = 0 /\ len2 = 0 THEN << 1, 1 >>
       ELSE IF len1 = 0 \/ len2 = 0 THEN << 0, 1 >>
       ELSE LET max_len == IF len1 >= len2 THEN len1 ELSE len2
                distance == levenshtein_distance(s1, s2)
            IN << max_len - distance, max_len >>

\* similarity > 0.6
IsSimilar(x) == 5 * x[1] > 3 * x[2]

\* suggestions.sort_by(|a, b| sim_b.partial_cmp(&sim_a)): a stable sort by
\* descending similarity to target_lower
RECURSIVE SortBySimilarity(_, _)
SortBySimilarity(q, target_lower) ==
    IF q = << >> THEN << >>
    ELSE LET front == SortBySimilarity(SubSeq(q, 1, Len(q) - 1), target_lower)
             sim(a) == calculate_string_similarity(target_lower, to_lowercase(a))
             x == sim(q[Len(q)])
             k == Cardinality({ j \in DOMAIN front : ~ScoreLess(sim(front[j]), x) })
         IN SubSeq(front, 1, k) \o << q[Len(q)] >> \o SubSeq(front, k + 1, Len(front))

\* suggest_link_fixes: the titles, in iteration order, that are similar to
\* the target, then the file stems of the paths, in iteration order, that
\* are similar to it; sorted and cut to five
suggest_link_fixes(ix, link) ==
    LET target_lower == to_lowercase(link.target)
        sim(a) == calculate_string_similarity(target_lower, to_lowercase(a))
        titles == FilterSeq(ix.title_iter,
                            { title \in DOMAIN ix.title_to_id : ~IsSimilar(sim(title)) })
        paths == FilterSeq(ix.path_iter,
                           { path \in DOMAIN ix.path_to_id :
                               \/ file_stem(path) = None
                               \/ ~IsSimilar(sim(file_stem(path))) })
        suggestions == titles \o [i \in DOMAIN paths |-> file_stem(paths[i])]
    IN truncate(SortBySimilarity(suggestions, target_lower), 5)

\* get_broken_links(Some(note_id)): one record per stored broken link of
\* note_id, in stored order
get_broken_links_of(ix, note_id) ==
    LET links == GetOr(ix.broken_links, note_id, << >>)
    IN [i \in 1..Len(links) |->
          [ source_note_id |-> note_id,
            source_note_path |-> GetOr(ix.id_to_path, note_id, << >>),
            link |-> links[i],
            suggestions |-> suggest_link_fixes(ix, links[i]) ]]

\* validate_link_targets: for each link whether its target is non-empty
\* after trimming; the index is locked and not read
validate_link_targets(ix, links) ==
    [i \in DOMAIN links |-> trim(links[i].target) # << >>]

\* --------------------------------------------------------------- behaviour
\* last holds the call made last with its arguments; for update_note_links
\* also the Result it returned, and the forward set and the broken-link list
\* that the note had when the call was made
NoCall == [op |-> "none"]

\* the threads that run commands
Threads == { "t1", "t2" }

\* the notes of the note store that the commands register
Notes == { [id |-> "n1", path |-> << "d", "/", "a" >>, title |-> << "a" >>],
           [id |-> "n2", path |-> << "e", "/", "a" >>, title |-> << "A", "b" >>] }

Init ==
    /\ outgoing_links = new.outgoing_links
    /\ incoming_links = new.incoming_links
    /\ path_to_id = new.path_to_id
    /\ id_to_path = new.id_to_path
    /\ title_to_id = new.title_to_id
    /\ broken_links = new.broken_links
    /\ orphaned_notes = new.orphaned_notes
    /\ path_iter = new.path_iter
    /\ title_iter = new.title_iter
    /\ last = NoCall
    /\ ops = 0
    /\ lock = None
    /\ pc = [t \in Threads |-> "idle"]
    /\ cmd = [t \in Threads |-> NoCall]
    /\ committed = new

Register(note_id, path, title) ==
    /\ ops < MaxOps
    /\ \E r \in register_note(Index, note_id, path, title) : SetIndex(r)
    /\ last' = [op |-> "register", note_id |-> note_id, path |-> path, title |-> title]
    /\ ops' = ops + 1
    /\ UNCHANGED layer

Unregister(note_id) ==
    /\ ops < MaxOps
    /\ \E r \in {unregister_note(Index, note_id)} : SetIndex(r)
    /\ last' = [op |-> "unregister", note_id |-> note_id]
    /\ ops' = ops + 1
    /\ UNCHANGED layer

UpdateLinks(note_id, links) ==
    /\ ops < MaxOps
    /\ \E r \in {update_note_links(Index, note_id, links)} : SetIndex(r)
    /\ last' = [op |-> "update", note_id |-> note_id, links |-> links,
                result |-> UpdateResult(Index, note_id, links),
                fwd |-> GetOr(outgoing_links, note_id, {}),
                broken |-> GetOr(broken_links, note_id, << >>)]
    /\ ops' = ops + 1
    /\ UNCHANGED layer

Next ==
    \/ \E id \in Ids, p \in Paths, t \in Titles : Register(id, p, t)
    \/ \E id \in Ids : Unregister(id)
    \/ \E id \in Ids, links \in LinkLists : UpdateLinks(id, links)

Spec == Init /\ [][Next]_vars

\* the same calls, made with the titles, paths and targets that exercise
\* every step of resolution
NextR ==
    \/ \E id \in Ids, p \in RPaths, t \in RTitles : Register(id, p, t)
    \/ \E id \in Ids : Unregister(id)
    \/ \E id \in Ids, links \in RLinkLists : UpdateLinks(id, links)

SpecR == Init /\ [][NextR]_vars

\* ------------------------------------------------------------ command layer
\* Every command takes the Mutex<LinkIndex> in its first statement, calls the
\* index while it holds the guard, and drops the guard when it returns. A
\* thread is idle, or inside one command at the position pc[t]. The commands
\* that change the index are register_note_in_index, update_note_links and
\* rebuild_link_index; no command calls unregister_note.

\* Mutex::lock that returns at once, whoever holds a guard
lock_available_Unguarded == TRUE

\* Mutex::lock returns only when no guard is alive
lock_available == lock = None

\* the read commands
Queries == { "get_backlinks", "get_outgoing_links", "find_similar_notes",
             "get_broken_links", "get_orphaned_notes", "get_link_statistics" }

\* the positions inside a read command
Reading == { "read", "read_return" }

\* the mutex is poisoned: a thread has panicked while it held the guard.
\* lock() then returns Err, which every command returns at once.
poisoned == \E t \in Threads : pc[t] = "panicked"

\* link_index.lock() returns Ok in thread t, which goes to position to and
\* holds the arguments and locals c
Enter(t, to, c) ==
    /\ pc[t] = "idle"
    /\ lock_available
    /\ ~poisoned
    /\ lock' = Some(t)
    /\ pc' = [pc EXCEPT ![t] = to]
    /\ cmd' = [cmd EXCEPT ![t] = c]
    /\ UNCHANGED << outgoing_links, incoming_links, path_to_id, id_to_path,
                    title_to_id, broken_links, orphaned_notes, path_iter,
                    title_iter, committed >>

\* thread t changes the index to ix, goes to position to and keeps the
\* locals c
Step(t, ix, to, c) ==
    /\ SetIndex(ix)
    /\ pc' = [pc EXCEPT ![t] = to]
    /\ cmd' = [cmd EXCEPT ![t] = c]
    /\ UNCHANGED << last, ops, lock, committed >>

\* register_note_in_index
CallRegister(t, note_id, path, title) ==
    /\ ops < MaxOps
    /\ ops' = ops + 1
    /\ UNCHANGED last
    /\ Enter(t, "register_entries",
             [op |-> "register", note_id |-> note_id, path |-> path, title |-> title])

DoRegisterEntries(t) ==
    /\ pc[t] = "register_entries"
    /\ \E r \in RegisterEntries(Index, cmd[t].note_id, cmd[t].path, cmd[t].title) :
           Step(t, r, "register_sets", cmd[t])

DoRegisterSets(t) ==
    /\ pc[t] = "register_sets"
    /\ Step(t, RegisterSets(Index, cmd[t].note_id), "return", cmd[t])

\* update_note_links (command): rest holds the links not yet resolved,
\* broken the local vector of unresolved links, target the id that the
\* link in hand resolved to
CallUpdate(t, note_id, links) ==
    /\ ops < MaxOps
    /\ ops' = ops + 1
    /\ UNCHANGED last
    /\ Enter(t, "clear_mirrors",
             [op |-> "update", note_id |-> note_id, links |-> links,
              rest |-> links, broken |-> << >>, target |-> None])

DoClearMirrors(t) ==
    /\ pc[t] = "clear_mirrors"
    /\ Step(t, ClearMirrors(Index, cmd[t].note_id), "clear_forward", cmd[t])

DoClearForward(t) ==
    /\ pc[t] = "clear_forward"
    /\ Step(t, ClearForward(Index, cmd[t].note_id), "resolve", cmd[t])

\* one iteration of the loop, up to the insert into the forward set or the
\* push to the local vector
DoResolve(t) ==
    /\ pc[t] = "resolve"
    /\ cmd[t].rest # << >>
    /\ LET link == Head(cmd[t].rest)
           r == resolve_link_target(Index, link)
       IN IF r # None
          THEN Step(t, AddForward(Index, cmd[t].note_id, r[1]), "add_backward",
                    [cmd[t] EXCEPT !.rest = Tail(@), !.target = r])
          ELSE Step(t, Index, "resolve",
                    [cmd[t] EXCEPT !.rest = Tail(@), !.broken = Append(@, link)])

DoAddBackward(t) ==
    /\ pc[t] = "add_backward"
    /\ Step(t, AddBackward(Index, cmd[t].note_id, cmd[t].target[1]), "resolve",
            [cmd[t] EXCEPT !.target = None])

\* after the loop: the insert of the local vector when it is not empty
DoStoreBroken(t) ==
    /\ pc[t] = "resolve"
    /\ cmd[t].rest = << >>
    /\ Step(t, StoreBroken(Index, cmd[t].note_id, cmd[t].broken), "update_orphans", cmd[t])

DoUpdateOrphans(t) ==
    /\ pc[t] = "update_orphans"
    /\ Step(t, update_orphaned_status(Index), "return", cmd[t])

\* the mutating command returns and its guard is dropped
Return(t) ==
    /\ pc[t] = "return"
    /\ lock' = None
    /\ pc' = [pc EXCEPT ![t] = "idle"]
    /\ cmd' = [cmd EXCEPT ![t] = NoCall]
    /\ committed' = Index
    /\ UNCHANGED << outgoing_links, incoming_links, path_to_id, id_to_path,
                    title_to_id, broken_links, orphaned_notes, path_iter,
                    title_iter, last, ops >>

\* a read command: the lock, the read of the index, the return. The value
\* returned is a function of the index as it is at the read.
CallQuery(t, q) ==
    /\ UNCHANGED << ops, last >>
    /\ Enter(t, "read", [op |-> q])

DoRead(t) ==
    /\ pc[t] = "read"
    /\ Step(t, Index, "read_return", cmd[t])

ReadReturn(t) ==
    /\ pc[t] = "read_return"
    /\ lock' = None
    /\ pc' = [pc EXCEPT ![t] = "idle"]
    /\ cmd' = [cmd EXCEPT ![t] = NoCall]
    /\ UNCHANGED << outgoing_links, incoming_links, path_to_id, id_to_path,
                    title_to_id, broken_links, orphaned_notes, path_iter,
                    title_iter, last, ops, committed >>

NextConc ==
    \E t \in Threads :
        \/ \E n \in Notes : CallRegister(t, n.id, n.path, n.title)
        \/ DoRegisterEntries(t)
        \/ DoRegisterSets(t)
        \/ \E id \in Ids, links \in LinkLists : CallUpdate(t, id, links)
        \/ DoClearMirrors(t)
        \/ DoClearForward(t)
        \/ DoResolve(t)
        \/ DoAddBackward(t)
        \/ DoStoreBroken(t)
        \/ DoUpdateOrphans(t)
        \/ Return(t)
        \/ \E q \in Queries : CallQuery(t, q)
        \/ DoRead(t)
        \/ ReadReturn(t)

SpecConc == Init /\ [][NextConc]_vars

\* the positions of update_note_links (command) after the lock
UpdatePositions == { "clear_mirrors", "clear_forward", "resolve", "add_backward",
                     "update_orphans", "return" }

\* update_note_links fails in thread t at the position it has reached: the
\* thread unwinds, its guard is dropped and the mutex is poisoned; the index
\* stays as the statements executed so far left it
Interrupt(t) ==
    /\ cmd[t].op = "update"
    /\ pc[t] \in UpdatePositions
    /\ lock' = None
    /\ pc' = [pc EXCEPT ![t] = "panicked"]
    /\ UNCHANGED << outgoing_links, incoming_links, path_to_id, id_to_path,
                    title_to_id, broken_links, orphaned_notes, path_iter,
                    title_iter, last, ops, cmd, committed >>

NextFault ==
    \/ NextConc
    \/ \E t \in Threads : Interrupt(t)

SpecFault == Init /\ [][NextFault]_vars

\* ------------------------------------------------------- rebuild_link_index
\* the (id, path, title) of the notes handed to rebuild_link_index
BatchNotes ==
    { [id |-> "n1", path |-> << "d", "/", "a" >>, title |-> << "a" >>],
      [id |-> "n2", path |-> << "e", "/", "a" >>, title |-> << "A", "b" >>],
      [id |-> "n2", path |-> << "e", "/", "a" >>, title |-> << "a" >>] }

\* the (id, path, title, content) tuples
Tuples ==
    { [id |-> n.id, path |-> n.path, title |-> n.title, content |-> c] :
        n \in BatchNotes, c \in Contents }

\* notes_data: the sequences of at most MaxBatch tuples
Batches == UNION { [1..k -> Tuples] : k \in 0..MaxBatch }

\* a one-pass rebuild: each note is registered and its links are updated
\* before the next note is registered
RebuildNext_OnePass(at, i, n) ==
    CASE at = "rebuild_reset" ->
            IF n = 0 THEN << "return", 1 >> ELSE << "rebuild_register", 1 >>
      [] at = "rebuild_register" -> << "rebuild_update", i >>
      [] at = "rebuild_update" ->
            IF i < n THEN << "rebuild_register", i + 1 >> ELSE << "return", 1 >>

\* the position and the index of the tuple that follow the statement at
\* position at on tuple i, for a batch of n tuples: the loop that registers,
\* then the loop that parses and updates
RebuildNext(at, i, n) ==
    CASE at = "rebuild_reset" ->
            IF n = 0 THEN << "return", 1 >> ELSE << "rebuild_register", 1 >>
      [] at = "rebuild_register" ->
            IF i < n THEN << "rebuild_register", i + 1 >> ELSE << "rebuild_update", 1 >>
      [] at = "rebuild_update" ->
            IF i < n THEN << "rebuild_update", i + 1 >> ELSE << "return", 1 >>

\* thread t, in rebuild_link_index with the batch, changes the index to ix
\* and goes on
RebuildStep(t, batch, ix) ==
    LET next == RebuildNext(pc[t], cmd[t].i, Len(batch))
    IN Step(t, ix, next[1], [cmd[t] EXCEPT !.batch = batch, !.i = next[2]])

\* the call and the lock. No statement before the reset reads notes_data
\* and no other thread ever does, so the batch of the call is drawn where
\* it is first used. A rebuild starts from LinkIndex::new(), so what a
\* second rebuild leaves is what it leaves as the first: one rebuild is
\* followed in each behaviour.
CallRebuild(t) ==
    /\ ops < MaxOps
    /\ ops' = ops + 1
    /\ last = NoCall
    /\ last' = [op |-> "rebuild"]
    /\ Enter(t, "rebuild_reset", [op |-> "rebuild", batch |-> << >>, i |-> 1])

\* a rebuild that keeps the index it finds
RebuildReset_Keep(ix) == ix

\* *index = LinkIndex::new()
RebuildReset(ix) == new

DoRebuildReset(t) ==
    /\ pc[t] = "rebuild_reset"
    /\ \E batch \in Batches : RebuildStep(t, batch, RebuildReset(Index))

\* one iteration of the loop that registers the notes
DoRebuildRegister(t) ==
    /\ pc[t] = "rebuild_register"
    /\ LET note == cmd[t].batch[cmd[t].i]
       IN \E r \in register_note(Index, note.id, note.path, note.title) :
              RebuildStep(t, cmd[t].batch, r)

\* one iteration of the loop that parses the notes and updates their links
DoRebuildUpdate(t) ==
    /\ pc[t] = "rebuild_update"
    /\ LET note == cmd[t].batch[cmd[t].i]
       IN RebuildStep(t, cmd[t].batch,
                      update_note_links(Index, note.id, parse_links(note.content).links))

NextRebuild ==
    \E t \in Threads :
        \/ \E n \in Notes : CallRegister(t, n.id, n.path, n.title)
        \/ DoRegisterEntries(t)
        \/ DoRegisterSets(t)
        \/ CallRebuild(t)
        \/ DoRebuildReset(t)
        \/ DoRebuildRegister(t)
        \/ DoRebuildUpdate(t)
        \/ Return(t)
        \/ \E q \in Queries : CallQuery(t, q)
        \/ DoRead(t)
        \/ ReadReturn(t)

SpecRebuild == Init /\ [][NextRebuild]_vars

\* ----------------------------------------------------------------- similar
\* The note store registers its four notes, then updates the links of each
\* to one of its lists of targets, then asks for similar notes: ops tells
\* how far it is.

\* register_note for the note k
SimRegister(k) ==
    /\ ops = k - 1
    /\ \E r \in register_note(Index, SimNotes[k].id, SimNotes[k].path,
                               SimNotes[k].title) : SetIndex(r)
    /\ last' = [op |-> "register", note_id |-> SimNotes[k].id,
                path |-> SimNotes[k].path, title |-> SimNotes[k].title]
    /\ ops' = ops + 1
    /\ UNCHANGED layer

\* update_note_links for the note k with the links to the targets ts
SimUpdate(k, ts) ==
    /\ ops = Len(SimNotes) + k - 1
    /\ LET note_id == SimNotes[k].id
           links == LinksFrom(ts, 0)
       IN /\ SetIndex(update_note_links(Index, note_id, links))
          /\ last' = [op |-> "update", note_id |-> note_id, links |-> links,
                      result |-> UpdateResult(Index, note_id, links),
                      fwd |-> GetOr(outgoing_links, note_id, {}),
                      broken |-> GetOr(broken_links, note_id, << >>)]
    /\ ops' = ops + 1
    /\ UNCHANGED layer

\* find_similar_notes; last holds what it returns
Similar(note_id, limit) ==
    /\ ops = 2 * Len(SimNotes)
    /\ \E r \in find_similar_notes(Index, note_id, limit) :
           last' = [op |-> "similar", note_id |-> note_id, limit |-> limit,
                    result |-> r]
    /\ ops' = ops + 1
    /\ UNCHANGED << outgoing_links, incoming_links, path_to_id, id_to_path,
                    title_to_id, broken_links, orphaned_notes, path_iter,
                    title_iter >>
    /\ UNCHANGED layer

NextSim ==
    \/ \E k \in DOMAIN SimNotes : SimRegister(k)
    \/ \E k \in DOMAIN SimNotes : \E ts \in SimTargets[k] : SimUpdate(k, ts)
    \/ \E id \in SimIds, limit \in SimLimits : Similar(id, limit)

SpecSim == Init /\ [][NextSim]_vars

\* ------------------------------------------------------------- suggestions
\* The notes of SugNotes are registered in their order; the links of n1 are
\* updated once, at any time after its registration, with one link; the
\* broken links of n1 are asked for at any time.

\* register_note for the note k with one of its paths and titles
SugRegister(k, n) ==
    /\ SugIds[k] \notin DOMAIN id_to_path
    /\ \A j \in 1..(k - 1) : SugIds[j] \in DOMAIN id_to_path
    /\ \E r \in register_note(Index, SugIds[k], n.path, n.title) : SetIndex(r)
    /\ last' = [op |-> "register", note_id |-> SugIds[k],
                path |-> n.path, title |-> n.title]
    /\ ops' = ops + 1
    /\ UNCHANGED layer

\* update_note_links for n1 with one link to target
SugUpdate(target) ==
    /\ "n1" \in DOMAIN id_to_path
    /\ outgoing_links["n1"] = {}
    /\ "n1" \notin DOMAIN broken_links
    /\ LET links == LinksFrom(<< target >>, 0)
       IN /\ SetIndex(update_note_links(Index, "n1", links))
          /\ last' = [op |-> "update", note_id |-> "n1", links |-> links,
                      result |-> UpdateResult(Index, "n1", links),
                      fwd |-> GetOr(outgoing_links, "n1", {}),
                      broken |-> GetOr(broken_links, "n1", << >>)]
    /\ ops' = ops + 1
    /\ UNCHANGED layer

\* get_broken_links(Some(note_id)); last holds what it returns
SugBroken(note_id) ==
    /\ last.op # "broken"
    /\ last' = [op |-> "broken", note_id |-> note_id,
                result |-> get_broken_links_of(Index, note_id)]
    /\ ops' = ops + 1
    /\ UNCHANGED << outgoing_links, incoming_links, path_to_id, id_to_path,
                    title_to_id, broken_links, orphaned_notes, path_iter,
                    title_iter >>
    /\ UNCHANGED layer

NextSug ==
    \/ \E k \in DOMAIN SugNotes : \E n \in SugNotes[k] : SugRegister(k, n)
    \/ \E target \in SugTargets : SugUpdate(target)
    \/ SugBroken("n1")

SpecSug == Init /\ [][NextSug]_vars

\* ------------------------------------------------------------------ parsing
\* A text is put together from at most MaxPieces pieces and handed to the
\* parse_links command; ops counts the pieces.

\* the text at hand: the text put together so far, or the text that the
\* call made last returned
Text == IF last.op = "none" THEN << >> ELSE last.content

\* one more piece at the end of the text
ParseAppend(piece) ==
    /\ last.op \in { "none", "text" }
    /\ ops < MaxPieces
    /\ last' = [op |-> "text", content |-> Text \o piece]
    /\ ops' = ops + 1
    /\ UNCHANGED << outgoing_links, incoming_links, path_to_id, id_to_path,
                    title_to_id, broken_links, orphaned_notes, path_iter,
                    title_iter >>
    /\ UNCHANGED layer

\* the parse_links command on the text at hand; last holds the text, what
\* the command returns and the call before it
ParseText ==
    /\ last.op \in { "none", "text", "replace", "write" }
    /\ Text # Panic
    /\ last' = [op |-> "parse", content |-> Text, result |-> parse_links(Text),
                before |-> last]
    /\ UNCHANGED ops
    /\ UNCHANGED << outgoing_links, incoming_links, path_to_id, id_to_path,
                    title_to_id, broken_links, orphaned_notes, path_iter,
                    title_iter >>
    /\ UNCHANGED layer

NextParse ==
    \/ \E piece \in ParsePieces : ParseAppend(piece)
    \/ ParseText

SpecParse == Init /\ [][NextParse]_vars

\* --------------------------------------------------------------- replacing
\* A text is put together from pieces of ReplacePieces and parsed; its links
\* are then handed back with new targets to replace_link or to
\* replace_multiple_links, or written back with the targets they have, and
\* the text that results is handed to parse_links again.

\* the text put together has been parsed
Parsed == last.op = "parse" /\ last.before.op \in { "none", "text" }

\* the replace_link command on the text, with one of its links; content
\* is what it returns
ReplaceLink(k, new_target) ==
    /\ Parsed
    /\ k \in DOMAIN last.result.links
    /\ last' = [op |-> "replace",
                text |-> last.content,
                old_link |-> last.result.links[k],
                new_target |-> new_target,
                content |-> replace_link(last.content, last.result.links[k], new_target)]
    /\ UNCHANGED ops
    /\ UNCHANGED << outgoing_links, incoming_links, path_to_id, id_to_path,
                    title_to_id, broken_links, orphaned_notes, path_iter,
                    title_iter >>
    /\ UNCHANGED layer

\* the replace_multiple_links command on the text, with the links order of
\* the text in this order and the new targets new_targets
ReplaceMultipleLinks(order, new_targets) ==
    /\ Parsed
    /\ LET replacements == [j \in DOMAIN order |->
                               [link |-> last.result.links[order[j]],
                                new_target |-> new_targets[j]]]
       IN last' = [op |-> "replace_multiple",
                   text |-> last.content,
                   replacements |-> replacements,
                   content |-> replace_multiple_links(last.content, replacements)]
    /\ UNCHANGED ops
    /\ UNCHANGED << outgoing_links, incoming_links, path_to_id, id_to_path,
                    title_to_id, broken_links, orphaned_notes, path_iter,
                    title_iter >>
    /\ UNCHANGED layer

\* the links of the text written back: replace_multiple_links with every
\* link of the text and its own full target
WriteLinks ==
    /\ Parsed
    /\ LET links == last.result.links
           replacements == [j \in DOMAIN links |->
                               [link |-> links[j], new_target |-> full_target(links[j])]]
       IN last' = [op |-> "write",
                   text |-> last.content,
                   links |-> links,
                   content |-> replace_multiple_links(last.content, replacements)]
    /\ UNCHANGED ops
    /\ UNCHANGED << outgoing_links, incoming_links, path_to_id, id_to_path,
                    title_to_id, broken_links, orphaned_notes, path_iter,
                    title_iter >>
    /\ UNCHANGED layer

NextReplace ==
    \/ \E piece \in ReplacePieces : ParseAppend(piece)
    \/ ParseText
    \/ \E k \in 1..MaxPieces, new_target \in NewTargets : ReplaceLink(k, new_target)
    \/ \E ks \in SUBSET (1..MaxPieces) :
           /\ Parsed
           /\ ks \subseteq DOMAIN last.result.links
           /\ \E order \in Orders(ks), new_targets \in [1..Cardinality(ks) -> NewTargets] :
                  ReplaceMultipleLinks(order, new_targets)
    \/ WriteLinks

SpecReplace == Init /\ [][NextReplace]_vars

\* what the whole call of the mutating command c makes of the index ix
WholeCall(ix, c) ==
    CASE c.op = "register" -> register_note(ix, c.note_id, c.path, c.title)
      [] c.op = "update" -> { update_note_links(ix, c.note_id, c.links) }

\* ================================================================== claims
Fwd(id) == GetOr(outgoing_links, id, {})
Bwd(id) == GetOr(incoming_links, id, {})
Registered == DOMAIN id_to_path

\* C1: after any sequence of register, update_links and unregister calls, b
\* is in the forward set of a if and only if a is in the backward set of b.
C1_Transpose ==
    \A a \in Ids, b \in Ids : (b \in Fwd(a)) <=> (a \in Bwd(b))

\* an edge between two different notes survives an unregister of neither
C1_Witness ==
    /\ last.op = "update"
    /\ \E a \in Ids, b \in Ids : a # b /\ b \in Fwd(a) /\ a \in Bwd(b)

\* C2: after every single operation, orphans() is exactly the set of
\* registered ids whose forward set and backward set are both empty.
C2_OrphansExact ==
    get_orphaned_notes(Index) = { id \in Registered : Fwd(id) = {} /\ Bwd(id) = {} }

\* C3: update_links(id, L) called again right after update_links(id, L)
\* leaves the forward map, the backward map and the broken-link table as the
\* first call left them, from every reachable state, for every id and L.
C3_Idempotent ==
    last.op = "update" =>
        LET twice == update_note_links(Index, last.note_id, last.links)
        IN /\ twice.outgoing_links = outgoing_links
           /\ twice.incoming_links = incoming_links
           /\ twice.broken_links = broken_links

\* the state after an update_links whose list has a link resolved by the
\* suffix step with two candidate paths, and a broken link
C3_Witness ==
    /\ last.op = "update"
    /\ Cardinality(DOMAIN path_to_id) = 2
    /\ \E i \in DOMAIN last.links :
          /\ last.links[i].target \notin DOMAIN title_to_id
          /\ resolve_link_target(Index, last.links[i]) # None
    /\ last.note_id \in DOMAIN broken_links

\* the ids the links of L resolve to in the index ix
ResolvedTargets(ix, L) ==
    { r[1] : r \in { resolve_link_target(ix, L[i]) : i \in DOMAIN L } \ { None } }

\* the links of L that do not resolve in the index ix, in the order of L
Unresolved(ix, L) ==
    LET Broken(l) == resolve_link_target(ix, l) = None
    IN SelectSeq(L, Broken)

\* C4: after update_links(id, L) for a registered id, the forward set of id
\* is the set of ids the links of L resolve to, each of them has id in its
\* backward set, no target of the previous forward set keeps id in its
\* backward set unless L resolves to it again, and broken(Some(id)) lists
\* the unresolved links of L in input order and nothing else.
C4_UpdateEffect ==
    [][ (last'.op = "update" /\ last'.note_id \in Registered) =>
          LET id == last'.note_id
              L == last'.links
              targets == ResolvedTargets(Index, L)
              listed == get_broken_links_of(Index', id)
          IN /\ outgoing_links'[id] = targets
             /\ \A t \in targets : id \in incoming_links'[t]
             /\ \A t \in Fwd(id) \ targets : id \notin GetOr(incoming_links', t, {})
             /\ [i \in DOMAIN listed |-> listed[i].link] = Unresolved(Index, L)
      ]_vars

\* the state after update_links(id, L) of a registered id, L of two links,
\* one resolved to another note and one recorded as broken
C4_Witness ==
    /\ last.op = "update"
    /\ last.note_id \in Registered
    /\ \E t \in Fwd(last.note_id) : t # last.note_id
    /\ Len(GetOr(broken_links, last.note_id, << >>)) >= 1
    /\ Len(last.links) = 2

C6_RegisteredHaveEntries ==
    \A id \in Registered : id \in DOMAIN outgoing_links /\ id \in DOMAIN incoming_links

\* a registered note with an empty forward set after an update_links
C6_Witness ==
    /\ last.op = "update"
    /\ last.note_id \in Registered
    /\ outgoing_links[last.note_id] = {}

\* C7: register(id, path, title) of a registered id leaves the forward map,
\* the backward map, the broken-link table and the orphan set unchanged, and
\* afterwards id is recorded with the new path and the new title.
C7_ReRegisterFrame ==
    [][ (last'.op = "register" /\ last'.note_id \in Registered) =>
          LET id == last'.note_id
          IN /\ outgoing_links' = outgoing_links
             /\ incoming_links' = incoming_links
             /\ broken_links' = broken_links
             /\ orphaned_notes' = orphaned_notes
             /\ id_to_path'[id] = last'.path
             /\ PathKey(path_to_id', last'.path) # None
             /\ path_to_id'[PathKey(path_to_id', last'.path)[1]] = id
             /\ title_to_id'[last'.title] = id
      ]_vars

\* the state after a register of a note that was registered under another
\* title and has an edge
C7_Witness ==
    /\ last.op = "register"
    /\ \E t \in DOMAIN title_to_id : t # last.title /\ title_to_id[t] = last.note_id
    /\ Fwd(last.note_id) # {}

\* C10: resolution is first-match-wins: a target that equals a registered
\* title resolves to the id of that title, whatever paths equal or end with
\* it and whatever titles contain it; a target that equals no title and
\* equals a registered path resolves to the id of that path, whatever else
\* matches by suffix or substring.
C10_ExactFirst ==
    \A t \in RTargets :
        LET r == resolve_link_target(Index, WikiLink(t, 0))
            pk == PathKey(path_to_id, t)
        IN /\ t \in DOMAIN title_to_id => r = Some(title_to_id[t])
           /\ (t \notin DOMAIN title_to_id /\ pk # None) => r = Some(path_to_id[pk[1]])

\* the state after update_links(id, [l]), l's target being the title of one
\* note and the path of another: the edge goes to the note with the title
C10_Witness ==
    /\ last.op = "update"
    /\ Len(last.links) = 1
    /\ LET t == last.links[1].target
       IN /\ t \in DOMAIN title_to_id
          /\ t \in DOMAIN path_to_id
          /\ path_to_id[t] # title_to_id[t]
          /\ \E o \in DOMAIN path_to_id : o # t /\ ends_with(o, t)
          /\ \E o \in DOMAIN title_to_id : o # t /\ contains(to_lowercase(o), to_lowercase(t))
          /\ Fwd(last.note_id) = { title_to_id[t] }

\* C8: with the commands running concurrently, a thread that is at the read
\* of a query finds the index as the last completed mutation left it, never
\* as an update_links or a register in progress has it; and what a
\* mutating command leaves when it returns is what its whole call makes of
\* the index left by the mutation before it.
C8_QueriesSeeWholeMutations ==
    \A t \in Threads :
        /\ pc[t] \in Reading => Index = committed
        /\ pc[t] = "return" => Index \in WholeCall(committed, cmd[t])

\* a query is at its read and the index holds an edge: the update_links that
\* made it went through states with the forward member and no mirror
C8_Witness ==
    \E t \in Threads :
        /\ pc[t] = "read"
        /\ cmd[t].op \in Queries
        /\ \E a \in Ids : Fwd(a) # {}
        /\ broken_links # EmptyMap

\* the links that the parser finds in the text of a tuple, as a set
LinksOf(tuple) ==
    LET links == parse_links(tuple.content).links
    IN { links[k] : k \in 1..Len(links) }

\* the batch lists each note once, and no title twice
EachNoteOnce(batch) ==
    \A i, j \in 1..Len(batch) :
        i # j => batch[i].id # batch[j].id /\ batch[i].title # batch[j].title

\* C9: in rebuild_link_index no update_links has run while notes are still
\* being registered, and every note of the batch is registered when the
\* updates run; so when the rebuild of a batch that lists each note once
\* under pairwise distinct titles returns, every link of a note X whose
\* target is the title of another note Y of the batch is the edge X -> Y
\* and is not among the broken links of X, wherever X and Y stand in the
\* batch.
C9_TwoPhase ==
    \A t \in Threads :
        cmd[t].op = "rebuild" =>
            LET batch == cmd[t].batch
                n == Len(batch)
            IN /\ pc[t] = "rebuild_register" =>
                      /\ broken_links = EmptyMap
                      /\ \A id \in Ids : Fwd(id) = {} /\ Bwd(id) = {}
               /\ pc[t] = "rebuild_update" =>
                      \A k \in 1..n :
                          /\ batch[k].id \in Registered
                          /\ batch[k].title \in DOMAIN title_to_id
               /\ (pc[t] = "return" /\ EachNoteOnce(batch)) =>
                      \A x, y \in 1..n :
                          x # y =>
                              \A link \in LinksOf(batch[x]) :
                                  link.target = batch[y].title =>
                                      /\ batch[y].id \in Fwd(batch[x].id)
                                      /\ \A k \in DOMAIN GetOr(broken_links, batch[x].id, << >>) :
                                             broken_links[batch[x].id][k] # link

\* a rebuild returns whose batch holds X before Y, X with a link to the
\* title of Y: the link was resolved although Y stands after X
C9_Witness ==
    \E t \in Threads :
        /\ pc[t] = "return"
        /\ cmd[t].op = "rebuild"
        /\ Len(cmd[t].batch) = 2
        /\ EachNoteOnce(cmd[t].batch)
        /\ \E link \in LinksOf(cmd[t].batch[1]) : link.target = cmd[t].batch[2].title
        /\ cmd[t].batch[2].id \in Fwd(cmd[t].batch[1].id)
        /\ cmd[t].batch[1].id \in Bwd(cmd[t].batch[2].id)

\* the links held by a sequence of links, as a set
LinkSet(q) == { q[k] : k \in DOMAIN q }

\* the registered titles that contain the target or are contained in it,
\* both in lower case
TitlesEitherWay(target) ==
    LET target_lower == to_lowercase(target)
    IN { title \in DOMAIN title_to_id :
           \/ contains(to_lowercase(title), target_lower)
           \/ contains(target_lower, to_lowercase(title)) }

\* C11: after update_links(id, L), a link of L whose target is found by none
\* of the steps 1 to 3 and that is contained in a registered title, or
\* contains one, both in lower case, is an edge from id to the note of such
\* a title and is not among the broken links of id.
C11_FuzzyEitherWay ==
    last.op = "update" =>
        \A i \in DOMAIN last.links :
            LET link == last.links[i]
                hits == TitlesEitherWay(link.target)
            IN ( /\ link.target \notin DOMAIN title_to_id
                 /\ PathKey(path_to_id, link.target) = None
                 /\ SuffixMatch(Index, link.target) = None
                 /\ hits # {} ) =>
                   /\ \E title \in hits : title_to_id[title] \in Fwd(last.note_id)
                   /\ link \notin LinkSet(GetOr(broken_links, last.note_id, << >>))

\* the direction that the code has: the target is contained in a title
C11_Witness ==
    /\ last.op = "update"
    /\ \E i \in DOMAIN last.links :
          LET link == last.links[i]
          IN /\ link.target \notin DOMAIN title_to_id
             /\ PathKey(path_to_id, link.target) = None
             /\ SuffixMatch(Index, link.target) = None
             /\ \E title \in DOMAIN title_to_id :
                   /\ contains(to_lowercase(title), to_lowercase(link.target))
                   /\ title_to_id[title] \in Fwd(last.note_id)

\* the index ix with its two registries iterated in the orders po and to
Reordered(ix, po, to) == [ix EXCEPT !.path_iter = po, !.title_iter = to]

\* C12: resolution is a function of the registries and the target: an index
\* that holds the same path registry and the same title registry resolves
\* every target to the same id, whatever the order in which its maps are
\* iterated.
C12_OrderIndependent ==
    \A t \in RTargets :
        \A po \in Orders(DOMAIN path_to_id), to \in Orders(DOMAIN title_to_id) :
            resolve_link_target(Reordered(Index, po, to), WikiLink(t, 0))
                = resolve_link_target(Index, WikiLink(t, 0))

\* a target that is no title and no path, and two registered paths of
\* different notes that have its file name
C12_Witness ==
    \E t \in RTargets :
        /\ t \notin DOMAIN title_to_id
        /\ PathKey(path_to_id, t) = None
        /\ \E p, q \in DOMAIN path_to_id :
              /\ path_to_id[p] # path_to_id[q]
              /\ file_name(p) = file_name(t)
              /\ file_name(q) = file_name(t)

\* C13: when update_links(A, L) is called while a link l of L is among the
\* stored broken links of A and the target of l is a registered title, the
\* call makes the edge from A to the note of that title, in both maps, and l
\* is not among the broken links of A afterwards.
C13_BrokenRecovers ==
    last.op = "update" =>
        \A i \in DOMAIN last.links :
            LET link == last.links[i]
                A == last.note_id
            IN ( /\ link \in LinkSet(last.broken)
                 /\ link.target \in DOMAIN title_to_id ) =>
                   /\ title_to_id[link.target] \in Fwd(A)
                   /\ A \in Bwd(title_to_id[link.target])
                   /\ link \notin LinkSet(GetOr(broken_links, A, << >>))

\* the state after the second update_links(A, L): the link was broken, and
\* another note with its target as title was registered since
C13_Witness ==
    /\ last.op = "update"
    /\ \E i \in DOMAIN last.links :
          /\ last.links[i] \in LinkSet(last.broken)
          /\ last.links[i].target \in DOMAIN title_to_id
          /\ title_to_id[last.links[i].target] \in Fwd(last.note_id)
          /\ title_to_id[last.links[i].target] # last.note_id

\* C14: in every reachable state, backlinks(id) has as many records as the
\* backward set of id has members, and the source ids of the records are
\* the members of the backward set.
C14_BacklinksExact ==
    \A id \in Ids :
        LET records == get_backlinks(Index, id)
        IN /\ Cardinality(records) = Cardinality(Bwd(id))
           /\ { r.source_note_id : r \in records } = Bwd(id)

\* a note with a registered source: one record, with the source's title
\* and path
C14_Witness ==
    \E id \in Ids :
        /\ Bwd(id) # {}
        /\ \E r \in get_backlinks(Index, id) :
              /\ r.source_note_id \in Bwd(id)
              /\ r.source_note_id # id
              /\ r.source_note_title \in DOMAIN title_to_id

C16_OneTitleOnePath ==
    last.op = "register" =>
        LET id == last.note_id
        IN /\ \A t \in DOMAIN title_to_id : title_to_id[t] = id => t = last.title
           /\ \A p \in DOMAIN path_to_id : path_to_id[p] = id => PathEq(p, last.path)
           /\ get_note_title(Index, id) = Some(last.title)

\* C17: in every reachable state, backlinks(id), outgoing(id),
\* broken(Some(id)) and similar(id, limit) are empty for every id that is
\* not registered.
C17_UnknownIdEmpty ==
    \A id \in Ids \ Registered :
        /\ get_backlinks(Index, id) = {}
        /\ get_outgoing_links(Index, id) = {}
        /\ get_broken_links_of(Index, id) = << >>
        /\ \A limit \in SimLimits : find_similar_notes(Index, id, limit) = { << >> }

\* the four queries are empty for a note that has just been unregistered
\* while another note is registered
C17_Witness ==
    /\ last.op = "unregister"
    /\ last.note_id \notin Registered
    /\ Registered # {}
    /\ get_backlinks(Index, last.note_id) = {}
    /\ get_outgoing_links(Index, last.note_id) = {}
    /\ get_broken_links_of(Index, last.note_id) = << >>
    /\ find_similar_notes(Index, last.note_id, 10) = { << >> }

\* C18: update_links(id, L) returns Ok for every id and every list L, and
\* every link of L that does not resolve is among the broken links stored
\* for id afterwards.
C18_UpdateNeverFails ==
    last.op = "update" =>
        /\ last.result = "Ok"
        /\ \A i \in DOMAIN last.links :
              resolve_link_target(Index, last.links[i]) = None =>
                  last.links[i] \in LinkSet(GetOr(broken_links, last.note_id, << >>))

\* update_links has returned for an id that is not registered, with a list
\* of which no link resolves
C18_Witness ==
    /\ last.op = "update"
    /\ last.result = "Ok"
    /\ last.note_id \notin Registered
    /\ Len(last.links) = 2
    /\ Fwd(last.note_id) = {}
    /\ Len(GetOr(broken_links, last.note_id, << >>)) = 2

C20_Scenario4 ==
    last.op = "similar" =>
        \A B, C, D \in SimIds :
            LET A == last.note_id
            IN ( /\ last.limit = 10
                 /\ Cardinality({ A, B, C, D }) = 4
                 /\ { A, B } \subseteq Registered
                 /\ Fwd(A) = { C, D }
                 /\ Fwd(B) = { C, D }
                 /\ Fwd(C) = {}
                 /\ Fwd(D) = {} ) =>
                   \E k \in DOMAIN last.result :
                       /\ last.result[k].note_id = B
                       /\ last.result[k].similarity_score[1]
                             = last.result[k].similarity_score[2]
                       /\ { C, D } \subseteq DOMAIN last.result[k].common_links

\* C20 as the code has it: in that index the record for B has the score
\* 0.5, the outgoing term being 1.0 and the incoming term 0.0 (A and B
\* have no backlinks, so the union of their backward sets is empty), and
\* its common_links hold C and D.
C20_Scenario4Half ==
    last.op = "similar" =>
        \A B, C, D \in SimIds :
            LET A == last.note_id
            IN ( /\ last.limit = 10
                 /\ Cardinality({ A, B, C, D }) = 4
                 /\ { A, B } \subseteq Registered
                 /\ Fwd(A) = { C, D }
                 /\ Fwd(B) = { C, D }
                 /\ Fwd(C) = {}
                 /\ Fwd(D) = {} ) =>
                   \E k \in DOMAIN last.result :
                       /\ last.result[k].note_id = B
                       /\ 2 * last.result[k].similarity_score[1]
                             = last.result[k].similarity_score[2]
                       /\ { C, D } \subseteq DOMAIN last.result[k].common_links

\* similar(A, 10) has returned on the index of Scenario 4
C20_Witness ==
    /\ last.op = "similar"
    /\ last.limit = 10
    /\ last.note_id = "n1"
    /\ Registered = SimIds
    /\ Fwd("n1") = { "n3", "n4" }
    /\ Fwd("n2") = { "n3", "n4" }
    /\ Fwd("n3") = {}
    /\ Fwd("n4") = {}
    /\ Len(last.result) = 1
    /\ last.result[1].note_id = "n2"

\* the score that the claims give the pair of notes a and o: the mean of the
\* Jaccard indexes of their forward sets and of their backward sets, an index
\* being 0 when the union is empty; as the fraction << numerator, denominator >>
MeanJaccard(a, o) ==
    LET io == Cardinality(Fwd(a) \cap Fwd(o))
        uo == Cardinality(Fwd(a) \cup Fwd(o))
        ii == Cardinality(Bwd(a) \cap Bwd(o))
        ui == Cardinality(Bwd(a) \cup Bwd(o))
    IN IF uo = 0 /\ ui = 0 THEN << 0, 1 >>
       ELSE IF uo = 0 THEN << ii, 2 * ui >>
       ELSE IF ui = 0 THEN << io, 2 * uo >>
       ELSE << io * ui + ii * uo, 2 * uo * ui >>

\* equality and strict order of two fractions with positive denominators
FracEq(x, y) == x[1] * y[2] = y[1] * x[2]
FracGt(x, y) == x[1] * y[2] > y[1] * x[2]

\* the ids of the records of the vector q
RecordIds(q) == { q[k].note_id : k \in DOMAIN q }

\* C21: the vector returned by similar(id, limit) has at most limit records;
\* the score of each is the mean of the two Jaccard indexes (an index being
\* 0 when its union is empty) and is above 0.1; the scores do not increase
\* along the vector; and no registered note that is left out has a score
\* above that of a record returned.
C21_SimilarRanked ==
    last.op = "similar" =>
        LET A == last.note_id
            res == last.result
        IN /\ Len(res) <= last.limit
           /\ \A k \in DOMAIN res :
                 /\ FracEq(res[k].similarity_score, MeanJaccard(A, res[k].note_id))
                 /\ FracGt(res[k].similarity_score, << 1, 10 >>)
           /\ \A k \in DOMAIN res, j \in DOMAIN res :
                 k < j => ~FracGt(res[j].similarity_score, res[k].similarity_score)
           /\ \A o \in Registered \ ({ A } \cup RecordIds(res)) :
                 \A k \in DOMAIN res :
                     ~FracGt(MeanJaccard(A, o), res[k].similarity_score)

\* similar(A, 1) has returned one record while another note has a score
\* that is above 0.1 and below the score of the record
C21_Witness ==
    /\ last.op = "similar"
    /\ last.limit = 1
    /\ Len(last.result) = 1
    /\ \E o \in Registered \ ({ last.note_id } \cup RecordIds(last.result)) :
          /\ FracGt(MeanJaccard(last.note_id, o), << 1, 10 >>)
          /\ FracGt(last.result[1].similarity_score, MeanJaccard(last.note_id, o))

\* C22: in every reachable state, every record of every vector that
\* similar(id, limit) can return is a registered note other than id.
C22_SimilarRegistered ==
    \A id \in Ids, limit \in SimLimits :
        \A res \in find_similar_notes(Index, id, limit) :
            RecordIds(res) \subseteq Registered \ { id }

\* similar(id, 10) returns a record, and its records are registered notes
\* other than id
C22_Witness ==
    \E id \in Ids :
        \E res \in find_similar_notes(Index, id, 10) :
            /\ res # << >>
            /\ RecordIds(res) \subseteq Registered \ { id }

\* C23: in every record that similar(id, limit) returns for a note other,
\* common_links holds the members of (forward[id] \cap forward[other]) \cup
\* (backward[id] \cap backward[other]), each of them once.
C23_CommonLinksUnion ==
    last.op = "similar" =>
        \A k \in DOMAIN last.result :
            LET A == last.note_id
                other == last.result[k].note_id
                common == last.result[k].common_links
            IN /\ DOMAIN common = (Fwd(A) \cap Fwd(other)) \cup (Bwd(A) \cap Bwd(other))
               /\ \A x \in DOMAIN common : common[x] = 1

\* similar has returned a record whose common_links hold two common targets,
\* each once
C23_Witness ==
    /\ last.op = "similar"
    /\ \E k \in DOMAIN last.result :
          LET A == last.note_id
              other == last.result[k].note_id
              common == last.result[k].common_links
          IN /\ Cardinality(Fwd(A) \cap Fwd(other)) = 2
             /\ DOMAIN common = (Fwd(A) \cap Fwd(other)) \cup (Bwd(A) \cap Bwd(other))
             /\ \A x \in DOMAIN common : common[x] = 1

\* C24: the vector that similar(id, limit) has returned is the only vector
\* the call can return on the index: it does not depend on the order in
\* which the forward map is iterated.
C24_SimilarDeterministic ==
    last.op = "similar" =>
        find_similar_notes(Index, last.note_id, last.limit) = { last.result }

\* similar has returned two records of different scores, and no other vector
\* can be returned
C24_Witness ==
    /\ last.op = "similar"
    /\ Len(last.result) = 2
    /\ FracGt(last.result[1].similarity_score, last.result[2].similarity_score)
    /\ find_similar_notes(Index, last.note_id, last.limit) = { last.result }

\* the similarity that the claims give two strings: 1 - distance / max
\* length, the lengths counted in characters; as a fraction
CharSimilarity(a, b) ==
    LET m == IF Len(a) >= Len(b) THEN Len(a) ELSE Len(b)
    IN IF m = 0 THEN << 1, 1 >> ELSE << m - levenshtein_distance(a, b), m >>

\* the strings that can be suggested: the registered titles and the file
\* stems of the registered paths
Candidates ==
    DOMAIN title_to_id \cup ({ file_stem(p) : p \in DOMAIN path_to_id } \ { None })

ProjectPlan == << "P", "r", "o", "j", "e", "c", "t", " ", "P", "l", "a", "n" >>
ProyectPlan == << "P", "r", "o", "y", "e", "c", "t", " ", "P", "l", "a", "n" >>

\* C25: in every record that broken(Some(id)) returns, the suggestion list
\* has at most 5 entries; each is a registered title or the file stem of a
\* registered path whose similarity to the target, both in lower case, is
\* above 0.6; the similarities do not increase along the list; no candidate
\* left out has a similarity above that of an entry; and with the title
\* "Project Plan" registered the first suggestion for "Proyect Plan" is
\* "Project Plan".
C25_SuggestionsRanked ==
    last.op = "broken" =>
        \A i \in DOMAIN last.result :
            LET sug == last.result[i].suggestions
                target == last.result[i].link.target
                sim(c) == CharSimilarity(to_lowercase(target), to_lowercase(c))
            IN /\ Len(sug) <= 5
               /\ \A k \in DOMAIN sug :
                     /\ sug[k] \in Candidates
                     /\ FracGt(sim(sug[k]), << 3, 5 >>)
               /\ \A k \in DOMAIN sug, j \in DOMAIN sug :
                     k < j => ~FracGt(sim(sug[j]), sim(sug[k]))
               /\ \A c \in Candidates \ { sug[k] : k \in DOMAIN sug } :
                     \A k \in DOMAIN sug : ~FracGt(sim(c), sim(sug[k]))
               /\ (target = ProyectPlan /\ ProjectPlan \in DOMAIN title_to_id) =>
                     (sug # << >> /\ sug[1] = ProjectPlan)

\* Scenario 5: broken(Some(n1)) has returned the link to "Proyect Plan" with
\* "Project Plan" as its first suggestion
C25_Witness ==
    /\ last.op = "broken"
    /\ Len(last.result) = 1
    /\ last.result[1].link.target = ProyectPlan
    /\ ProjectPlan \in DOMAIN title_to_id
    /\ last.result[1].suggestions # << >>
    /\ last.result[1].suggestions[1] = ProjectPlan

\* C26: in every record that broken(Some(id)) returns, no string stands
\* twice in the suggestion list.
C26_SuggestionsDistinct ==
    last.op = "broken" =>
        \A i \in DOMAIN last.result :
            LET sug == last.result[i].suggestions
            IN \A k \in DOMAIN sug, j \in DOMAIN sug : k # j => sug[k] # sug[j]

\* broken(Some(n1)) has returned a link with four suggestions that differ
C26_Witness ==
    /\ last.op = "broken"
    /\ \E i \in DOMAIN last.result :
          LET sug == last.result[i].suggestions
          IN /\ Len(sug) = 4
             /\ Cardinality({ sug[k] : k \in DOMAIN sug }) = 4

\* C27: the similarity computed for a broken link's target and a candidate,
\* both in lower case, is 1 - distance / max length with the distance and
\* the lengths counted in characters.
C27_SimilarityInChars ==
    last.op = "broken" =>
        \A i \in DOMAIN last.result : \A c \in Candidates :
            LET target_lower == to_lowercase(last.result[i].link.target)
            IN FracEq(calculate_string_similarity(target_lower, to_lowercase(c)),
                      CharSimilarity(target_lower, to_lowercase(c)))

\* broken(Some(n1)) has returned a link whose target has one-byte characters
\* only, with a suggestion that is neither equal to it nor without a common
\* character, and the similarity is the one counted in characters
C27_Witness ==
    /\ last.op = "broken"
    /\ \E i \in DOMAIN last.result :
          LET target_lower == to_lowercase(last.result[i].link.target)
              sug == last.result[i].suggestions
          IN /\ len(target_lower) = Len(target_lower)
             /\ \E k \in DOMAIN sug :
                   /\ calculate_string_similarity(target_lower, to_lowercase(sug[k]))
                         = << 3, 4 >>
                   /\ CharSimilarity(target_lower, to_lowercase(sug[k])) = << 3, 4 >>

\* C28: in every reachable state and for every list of links, the i-th
\* result of validate_link_targets is true exactly when the target of the
\* i-th link resolves to a note of the index.
C28_ValidateResolves ==
    \A links \in LinkLists : \A i \in DOMAIN links :
        validate_link_targets(Index, links)[i]
            <=> resolve_link_target(Index, links[i]) # None

\* a link whose target resolves to a registered note is reported valid
C28_Witness ==
    \E links \in LinkLists :
        /\ Len(links) = 1
        /\ resolve_link_target(Index, links[1]) # None
        /\ resolve_link_target(Index, links[1])[1] \in Registered
        /\ validate_link_targets(Index, links)[1]

\* the part of the capture group2 of a wiki link that is its target: the
\* characters before the first "#"
TargetPart(group2) ==
    LET hash == { i \in DOMAIN group2 : group2[i] = "#" }
    IN IF hash = {} THEN group2
       ELSE SubSeq(group2, 1, (CHOOSE i \in hash : \A j \in hash : i <= j) - 1)

\* C29: in what parse(text) returns, no link has a target that is empty
\* after trimming, and every wiki-link occurrence of the text whose target
\* is empty after trimming stands once in the error list, with its byte
\* range and its raw text.
C29_NoEmptyTargets ==
    last.op = "parse" =>
        LET s == last.content
            links == last.result.links
            errors == last.result.errors
            ms == WikiMatches(s, 1)
        IN /\ \A k \in DOMAIN links : trim(links[k].target) # << >>
           /\ \A i \in DOMAIN ms :
                 trim(TargetPart(ms[i].group2)) = << >> =>
                     Cardinality({ e \in DOMAIN errors :
                         /\ errors[e].position = << ByteOffset(s, ms[i].start),
                                                    ByteOffset(s, ms[i].stop) >>
                         /\ errors[e].raw_text = SubSeq(s, ms[i].start, ms[i].stop - 1) })
                       = 1

\* a text with a two-byte character, a wiki link of blank target and a
\* Markdown link has been parsed: the wiki link is the one error and the
\* Markdown link the one link
C29_Witness ==
    /\ last.op = "parse"
    /\ last.content = << "é", "[", "[", " ", "]", "]", "[", "t", "]", "(", "a", ")" >>
    /\ Len(last.result.errors) = 1
    /\ last.result.errors[1].position = << 2, 7 >>
    /\ last.result.errors[1].raw_text = << "[", "[", " ", "]", "]" >>
    /\ Len(last.result.links) = 1
    /\ last.result.links[1].target = << "a" >>

\* C30: the links that parse(text) returns stand in non-decreasing order of
\* start offset, and the counters of wiki links, embeds and Markdown links
\* add up to the number of links.
C30_LinksSorted ==
    last.op = "parse" =>
        LET links == last.result.links
            stats == last.result.stats
        IN /\ \A k \in DOMAIN links, j \in DOMAIN links :
                 k < j => links[k].range[1] <= links[j].range[1]
           /\ stats.wiki_links + stats.embed_links + stats.markdown_links = Len(links)

\* a text with a Markdown link, an embed and a wiki link, in this order, has
\* been parsed: the three links stand in the order of the text
C30_Witness ==
    /\ last.op = "parse"
    /\ Len(last.result.links) = 3
    /\ last.result.links[1].raw = << "[", "t", "]", "(", "a", ")" >>
    /\ last.result.links[2].is_embed
    /\ last.result.links[3].raw = << "[", "[", "a", "]", "]" >>
    /\ last.result.stats = [ wiki_links |-> 1, embed_links |-> 1,
                             markdown_links |-> 1, broken_links |-> 0 ]

\* C34: register(id, path, title) while title maps to another id overwrites
\* the mapping: afterwards a link whose target is title resolves to id, and
\* the title registry no longer leads to the other id.
C34_LastTitleWins ==
    [][ (/\ last'.op = "register"
         /\ last'.title \in DOMAIN title_to_id
         /\ title_to_id[last'.title] # last'.note_id) =>
          LET t == last'.title
              earlier == title_to_id[t]
              r == resolve_link_target(Index', WikiLink(t, 0))
          IN /\ title_to_id'[t] = last'.note_id
             /\ r = Some(last'.note_id)
             /\ r # Some(earlier)
      ]_vars

\* the state after two registrations, of two ids with one title
C34_Witness ==
    /\ last.op = "register"
    /\ ops = 2
    /\ Cardinality(Registered) = 2
    /\ DOMAIN title_to_id = { last.title }
    /\ resolve_link_target(Index, WikiLink(last.title, 0)) = Some(last.note_id)

\* C35: after any sequence of calls, a target resolves to a registered id or
\* to none, every member of every forward set is a registered note, and
\* every key of the backward map with a non-empty set is a registered note.
C35_OnlyRegisteredIds ==
    /\ \A t \in Targets \cup Paths :
          resolve_link_target(Index, WikiLink(t, 0)) \in
              { None } \cup { Some(id) : id \in Registered }
    /\ \A a \in DOMAIN outgoing_links : outgoing_links[a] \subseteq Registered
    /\ \A b \in DOMAIN incoming_links : incoming_links[b] # {} => b \in Registered

\* the state after the unregister of a note that had been registered under
\* two paths, one after the other: the first path is still in path_to_id
C35_Witness ==
    /\ last.op = "unregister"
    /\ last.note_id \notin Registered
    /\ \E p \in DOMAIN path_to_id : path_to_id[p] = last.note_id

\* C36: after any sequence of calls, the keys of the forward map are the
\* registered ids, and so are the keys of the backward map.
C36_KeysAreRegistered ==
    /\ DOMAIN outgoing_links = Registered
    /\ DOMAIN incoming_links = Registered

\* the state after update_links of an id that is not registered, made while
\* another note is registered
C36_Witness ==
    /\ last.op = "update"
    /\ last.note_id \notin Registered
    /\ Registered # {}
    /\ DOMAIN incoming_links = Registered

\* C37: unregister(x) keeps the resolution of the remaining notes: for every
\* note y still registered, a target equal to a title that maps to y or to
\* the path y is registered with, which resolved to y before the call,
\* resolves to y after it.
C37_UnregisterKeepsResolution ==
    [][ last'.op = "unregister" =>
          \A y \in DOMAIN id_to_path' :
              \A t \in { id_to_path[y] } \cup
                       { s \in DOMAIN title_to_id : title_to_id[s] = y } :
                  resolve_link_target(Index, WikiLink(t, 0)) = Some(y) =>
                      resolve_link_target(Index', WikiLink(t, 0)) = Some(y)
      ]_vars

\* the state after the unregister of one note while another is registered,
\* whose title and path resolve to it
C37_Witness ==
    /\ last.op = "unregister"
    /\ \E y \in Registered :
          /\ resolve_link_target(Index, WikiLink(id_to_path[y], 0)) = Some(y)
          /\ \E s \in DOMAIN title_to_id :
                /\ title_to_id[s] = y
                /\ resolve_link_target(Index, WikiLink(s, 0)) = Some(y)

\* C38: update_links(id, L) leaves the path and title registries, the
\* forward set of every note other than id and the broken-link list of
\* every note other than id as they were, and the backward set of every
\* note is afterwards what it was before, up to the membership of id.
C38_UpdateFrame ==
    [][ last'.op = "update" =>
          LET id == last'.note_id
          IN /\ path_to_id' = path_to_id
             /\ id_to_path' = id_to_path
             /\ title_to_id' = title_to_id
             /\ DOMAIN outgoing_links' \ {id} = DOMAIN outgoing_links \ {id}
             /\ \A o \in DOMAIN outgoing_links \ {id} :
                   outgoing_links'[o] = outgoing_links[o]
             /\ DOMAIN broken_links' \ {id} = DOMAIN broken_links \ {id}
             /\ \A o \in DOMAIN broken_links \ {id} :
                   broken_links'[o] = broken_links[o]
             /\ \A b \in DOMAIN incoming_links \cup DOMAIN incoming_links' :
                   GetOr(incoming_links', b, {}) \ {id} = GetOr(incoming_links, b, {}) \ {id}
      ]_vars

\* the state after an update of one note that added it to a backward set
\* another note is in, while that other note has an edge and broken links
C38_Witness ==
    /\ last.op = "update"
    /\ \E o \in DOMAIN outgoing_links \ {last.note_id} :
          /\ outgoing_links[o] # {}
          /\ o \in DOMAIN broken_links
          /\ \E b \in DOMAIN incoming_links :
                /\ { o, last.note_id } \subseteq incoming_links[b]
                /\ b \notin last.fwd

\* the positions of rebuild_link_index after the lock
RebuildPositions == { "rebuild_reset", "rebuild_register", "rebuild_update" }

\* the ids of the tuples of a batch
BatchIds(batch) == { batch[k].id : k \in DOMAIN batch }

\* C39: while a thread is inside rebuild_link_index no other thread is at
\* the read of a query, and a query at its read finds the index as the last
\* completed command left it; when the rebuild returns, the registered
\* notes, the keys of both adjacency maps and the notes that titles and
\* paths lead to are the notes of the batch, and no other.
C39_RebuildCriticalSection ==
    \A t \in Threads :
        /\ pc[t] \in Reading =>
              /\ Index = committed
              /\ \A u \in Threads : pc[u] \notin RebuildPositions
        /\ (pc[t] = "return" /\ cmd[t].op = "rebuild") =>
              LET ids == BatchIds(cmd[t].batch)
              IN /\ Registered = ids
                 /\ DOMAIN outgoing_links = ids
                 /\ DOMAIN incoming_links = ids
                 /\ { title_to_id[s] : s \in DOMAIN title_to_id } \subseteq ids
                 /\ { path_to_id[p] : p \in DOMAIN path_to_id } \subseteq ids
                 /\ DOMAIN broken_links \subseteq ids
                 /\ orphaned_notes \subseteq ids

\* a rebuild is about to return, made on an index that held a note which
\* is not in the batch; the other thread has not got the lock
C39_Witness ==
    \E t \in Threads :
        /\ pc[t] = "return"
        /\ cmd[t].op = "rebuild"
        /\ cmd[t].batch # << >>
        /\ DOMAIN committed.id_to_path \ BatchIds(cmd[t].batch) # {}
        /\ Registered = BatchIds(cmd[t].batch)
        /\ \A u \in Threads \ {t} : pc[u] = "idle"

\* the url starts with http:// or with https://
IsHttp(url) ==
    \/ Len(url) >= 7 /\ SubSeq(url, 1, 7) = << "h", "t", "t", "p", ":", "/", "/" >>
    \/ Len(url) >= 8 /\ SubSeq(url, 1, 8) = << "h", "t", "t", "p", "s", ":", "/", "/" >>

\* C33: for every Markdown link [text](url) of the text, parse(text) has
\* one link at its byte range, with target url and alias text, when url
\* does not start with http:// or https://; when it does, no link and no
\* error stands at its byte range.
C33_MarkdownLocalOnly ==
    last.op = "parse" =>
        LET s == last.content
            links == last.result.links
            errors == last.result.errors
            ms == MarkdownMatches(s, 1)
        IN \A i \in DOMAIN ms :
              LET range == << ByteOffset(s, ms[i].start), ByteOffset(s, ms[i].stop) >>
                  at == { k \in DOMAIN links : links[k].range = range }
              IN IF IsHttp(ms[i].group2)
                 THEN /\ at = {}
                      /\ \A e \in DOMAIN errors : errors[e].position # range
                 ELSE /\ Cardinality(at) = 1
                      /\ \A k \in at :
                            /\ links[k].target = ms[i].group2
                            /\ links[k].alias = Some(ms[i].group1)

\* a text with an HTTP link, an HTTPS link and a local Markdown link has
\* been parsed: the local one is the only link, and there is no error
C33_Witness ==
    /\ last.op = "parse"
    /\ last.content =
          << "[", "t", "]", "(", "h", "t", "t", "p", ":", "/", "/", "x", ")",
             "[", "u", "]", "(", "h", "t", "t", "p", "s", ":", "/", "/", "x", ")",
             "[", "t", "]", "(", "a", ")" >>
    /\ Len(last.result.links) = 1
    /\ last.result.links[1].target = << "a" >>
    /\ last.result.links[1].alias = Some(<< "t" >>)
    /\ last.result.links[1].range = << 27, 33 >>
    /\ last.result.errors = << >>

\* the text in which the byte range of every link of the replacements is
\* replaced by the new link text and the other characters stay, read from
\* the character i on
RECURSIVE Spliced(_, _, _)
Spliced(text, replacements, i) ==
    IF i > Len(text) THEN << >>
    ELSE LET here == { j \in DOMAIN replacements :
                         ByteOffset(text, i) = replacements[j].link.range[1] }
         IN IF here = {} THEN << text[i] >> \o Spliced(text, replacements, i + 1)
            ELSE LET r == replacements[CHOOSE j \in here : TRUE]
                     after == CHOOSE n \in (i + 1)..(Len(text) + 1) :
                                  ByteOffset(text, n) = r.link.range[2]
                 IN new_link(r.link, r.new_target) \o Spliced(text, replacements, after)

\* C31: for replacements with pairwise disjoint byte ranges, in whatever
\* order the list holds them, replace_many(text, replacements) is the text
\* in which the byte range of each link is replaced by its new link text
\* and every byte outside those ranges is as it was.
C31_ReplaceManyAnyOrder ==
    last.op = "replace_multiple" =>
        last.content = Spliced(last.text, last.replacements, 1)

\* replace_many has been called with three replacements in ascending order
\* of start offset, the first of which changes the length of its link
C31_Witness ==
    /\ last.op = "replace_multiple"
    /\ Len(last.replacements) = 3
    /\ \A j \in 1..2 :
          last.replacements[j].link.range[2] <= last.replacements[j + 1].link.range[1]
    /\ len(new_link(last.replacements[1].link, last.replacements[1].new_target))
          # len(last.replacements[1].link.raw)
    /\ last.content # Panic
    /\ last.content = Spliced(last.text, last.replacements, 1)

\* the (target, alias, anchor, is_embed) tuples of a list of links, in order
Tuples4(links) ==
    [k \in DOMAIN links |->
        << links[k].target, links[k].alias, links[k].anchor, links[k].is_embed >>]

\* C32: when the links that parse(text) returned are written back into the
\* text, each with its own target and anchor, parsing the text that results
\* returns links with the same (target, alias, anchor, is_embed) tuples in
\* the same order.
C32_RoundTrip ==
    (last.op = "parse" /\ last.before.op = "write") =>
        Tuples4(last.result.links) = Tuples4(last.before.links)

\* a text with an anchored link, an aliased link and a Markdown link has
\* been written back and parsed again, with the same tuples
C32_Witness ==
    /\ last.op = "parse"
    /\ last.before.op = "write"
    /\ Len(last.before.links) = 3
    /\ \E k \in 1..3 : last.before.links[k].anchor # None
    /\ \E k \in 1..3 : last.before.links[k].alias # None /\ last.before.links[k].raw[1] = "["
                       /\ last.before.links[k].raw[2] = "["
    /\ \E k \in 1..3 : last.before.links[k].raw[2] = "t"
    /\ Tuples4(last.result.links) = Tuples4(last.before.links)

\* C40: parsing the text that replace(text, link, new_target) returns gives,
\* at the start offset of the replaced link, a link with the target
\* new_target and the alias, the anchor and the embed flag of the replaced
\* link; the bytes before the range of the link and the bytes after it are
\* as they were.
C40_ReplaceKeepsRest ==
    (last.op = "parse" /\ last.before.op = "replace") =>
        LET text == last.before.text
            old == last.before.old_link
            out == last.content
            from == CHOOSE i \in 1..Len(text) : ByteOffset(text, i) = old.range[1]
            tail == len(text) - old.range[2]
        IN /\ \E k \in DOMAIN last.result.links :
                 LET l == last.result.links[k]
                 IN /\ l.range[1] = old.range[1]
                    /\ l.target = last.before.new_target
                    /\ l.alias = old.alias
                    /\ l.anchor = old.anchor
                    /\ l.is_embed = old.is_embed
           /\ SubSeq(out, 1, from - 1) = SubSeq(text, 1, from - 1)
           /\ \E n \in 1..(Len(out) + 1), m \in 1..(Len(text) + 1) :
                 /\ len(out) - ByteOffset(out, n) = tail
                 /\ len(text) - ByteOffset(text, m) = tail
                 /\ SubSeq(out, n, Len(out)) = SubSeq(text, m, Len(text))

\* the target of the aliased link in the middle of a text with a two-byte
\* character has been replaced by a longer one, and the text parsed again
C40_Witness ==
    /\ last.op = "parse"
    /\ last.before.op = "replace"
    /\ last.before.text = << "é", "[", "[", "a", "|", "b", "]", "]", "[", "[", "a", "]", "]" >>
    /\ last.before.old_link.range = << 2, 9 >>
    /\ last.before.new_target = << "é", "d", "d", "d", "d", "d" >>
    /\ last.content = << "é", "[", "[", "é", "d", "d", "d", "d", "d", "|", "b", "]", "]",
                         "[", "[", "a", "]", "]" >>
    /\ last.result.links[1].target = << "é", "d", "d", "d", "d", "d" >>
    /\ last.result.links[1].alias = Some(<< "b" >>)
    /\ last.result.links[1].range = << 2, 15 >>

====
